---- MODULE Spec2Model ----
(***************************************************************************)
(* Model of the AI video generator client.                                 *)
(*                                                                         *)
(*   - generateVideo (src/services/geminiService.ts): request shaping,     *)
(*     the status poll loop and the result resolution;                     *)
(*   - VideoGeneratorForm (src/components/VideoGeneratorForm.tsx): image   *)
(*     selection and the asynchronous submit;                              *)
(*   - App (src/App.tsx): the generation state shown to the user.          *)
(*                                                                         *)
(* JavaScript values that may be undefined are encoded as sequences of     *)
(* length at most one: <<>> is undefined, <<v>> is the value v.            *)
(***************************************************************************)
EXTENDS Integers, Sequences, FiniteSets, TLC

(***************************************************************************)
(* Bounds of the model.                                                    *)
(***************************************************************************)
\* status checks that may return an incomplete operation in one call
MaxPolls == 8
\* entries in the generatedVideos list of a backend response
MaxVideos == 2

(***************************************************************************)
(* Optional values.                                                        *)
(***************************************************************************)
None == <<>>
Some(v) == <<v>>
\* JavaScript truthiness of an optional string: undefined and "" are falsy
Truthy(o) == o # None /\ o[1] # ""
\* o?.f for an optional record o whose field f is itself optional
Chain(o, f) == IF o = None THEN None ELSE o[1][f]
\* o?.[0] for an optional sequence o
First(o) == IF o = None THEN None ELSE IF Len(o[1]) = 0 THEN None ELSE Some(o[1][1])
\* the sequences over S of length lo..hi
SeqsOf(S, lo, hi) == UNION {[1..n -> S] : n \in lo..hi}

(***************************************************************************)
(* geminiService.ts: constants.                                            *)
(***************************************************************************)
LOADING_MESSAGES ==
  << "Recalling the details of your memory...",
     "Gathering the echoes of the past...",
     "Focusing on the feeling of the moment...",
     "Weaving motion into your photograph...",
     "Rendering the memory, this can take a moment...",
     "Bringing your memory to life..." >>

FetchingMessage == "Fetching generated video..."
FastModel == "veo-3.1-fast-generate-preview"
StandardModel == "veo-3.1-generate-preview"

\* LOADING_MESSAGES[i] with the 0-based index of the code
LoadingMessageAt(i) == LOADING_MESSAGES[i + 1]

\* mutants of NextMessageIndex: wraps one entry early; does not advance
NextMessageIndex_WrapEarly(i) == (i + 1) % (Len(LOADING_MESSAGES) - 1)
NextMessageIndex_NoAdvance(i) == i % Len(LOADING_MESSAGES)

\* messageIndex = (messageIndex + 1) % LOADING_MESSAGES.length
NextMessageIndex(i) == (i + 1) % Len(LOADING_MESSAGES)

(***************************************************************************)
(* Inputs of a call.                                                       *)
(***************************************************************************)
ImageParts ==
  { [data |-> "AAAA", mimeType |-> "image/png"],
    [data |-> "BBBB", mimeType |-> "image/jpeg"] }
AspectRatios == {"16:9", "9:16"}
Prompts == {"Bring this memory to life with gentle, nostalgic motion."}

(***************************************************************************)
(* Request Builder: generateVideo, lines 22-62.                            *)
(***************************************************************************)
BaseConfig(aspectRatio) ==
  [numberOfVideos |-> 1, resolution |-> "720p", aspectRatio |-> aspectRatio,
   referenceImages |-> None]

\* mutant of ReferenceImages: the list is built back to front
ReferenceImages_Reversed(images) ==
  [i \in 1..Len(images) |->
     [image |-> [imageBytes |-> images[Len(images) + 1 - i].data,
                 mimeType |-> images[Len(images) + 1 - i].mimeType],
      referenceType |-> "ASSET"]]

\* images.map(img => ({ image: {...}, referenceType: 'ASSET' })), lines 35-41
ReferenceImages(images) ==
  [i \in 1..Len(images) |->
     [image |-> [imageBytes |-> images[i].data, mimeType |-> images[i].mimeType],
      referenceType |-> "ASSET"]]

\* mutant of UseReferenceImages: the threshold off by one
UseReferenceImages_OffByOne(images) == Len(images) > 2

\* if (images.length > 1)
UseReferenceImages(images) == Len(images) > 1

BuildRequest(images, prompt, aspectRatio) ==
  IF UseReferenceImages(images)
  THEN [model |-> StandardModel,
        prompt |-> prompt,
        image |-> None,
        config |-> [BaseConfig(aspectRatio) EXCEPT
                      !.referenceImages = Some(ReferenceImages(images))]]
  ELSE [model |-> FastModel,
        prompt |-> prompt,
        image |-> Some([imageBytes |-> images[1].data,
                        mimeType |-> images[1].mimeType]),
        config |-> BaseConfig(aspectRatio)]

(***************************************************************************)
(* Backend responses.                                                      *)
(***************************************************************************)
Uris == {"", "https://video.example/v1?alt=media"}
FilterReasons == {"RAI_VIOLENCE"}
ErrorMessages == {"Quota exceeded"}
StatusTexts == {"Forbidden"}
ThrownMessages == {<<"Failed to fetch">>, <<"Requested entity was not found.">>}
ObjectUrls == {"blob:video-1", "blob:video-2"}

OptOf(S) == {None} \cup {Some(v) : v \in S}
VideoObjs == [uri : OptOf(Uris), filterReason : OptOf(FilterReasons)]
Entries == [video : {Some(v) : v \in VideoObjs}]
Responses ==
  [generatedVideos : OptOf(SeqsOf(Entries, 0, MaxVideos)),
   error : OptOf([message : {Some(m) : m \in ErrorMessages}])]
Operations ==
  {[done |-> FALSE, response |-> None]}
    \cup {[done |-> TRUE, response |-> r] : r \in OptOf(Responses)}

(***************************************************************************)
(* Result Resolver: generateVideo, lines 83-109.                           *)
(***************************************************************************)
\* operation.response?.generatedVideos?.[0]
GeneratedVideo(response) == First(Chain(response, "generatedVideos"))

\* generatedVideo?.video?.uri
DownloadLink(response) == Chain(Chain(GeneratedVideo(response), "video"), "uri")

\* mutant of FilterReason: the reason is read from the entry, where the
\* backend never puts it
FilterReason_FromEntry(response) == None

\* generatedVideo?.video?.filterReason
FilterReason(response) ==
  Chain(Chain(GeneratedVideo(response), "video"), "filterReason")

\* response?.error?.message
ErrorMessage(response) == Chain(Chain(response, "error"), "message")

\* mutants of NoGeneratedVideos: only the absent list is looked for; the
\* length test is off by one
NoGeneratedVideos_AbsentOnly(response) == Chain(response, "generatedVideos") = None
NoGeneratedVideos_OffByOne(response) ==
  \/ Chain(response, "generatedVideos") = None
  \/ Len(Chain(response, "generatedVideos")[1]) <= 1

\* !response?.generatedVideos || response.generatedVideos.length === 0
NoGeneratedVideos(response) ==
  \/ Chain(response, "generatedVideos") = None
  \/ Len(Chain(response, "generatedVideos")[1]) = 0

SafetyPrefix == "Video was filtered by safety policy: "
UpstreamPrefix == "Video generation failed: "
EmptyText == "Video generation completed, but no video was returned. The content may have been filtered by safety policies. Try a different prompt or image."
MalformedText == "Video generation completed, but no download link was found. Check the browser console for details."
DownloadPrefix == "Failed to download video: "

\* mutant of Resolve: the filter reason is looked at before the locator
Resolve_FilterFirst(response) ==
  IF Truthy(FilterReason(response))
  THEN [ok |-> FALSE, uri |-> "", error |->
          <<SafetyPrefix, FilterReason(response)[1], ". Try a different prompt.">>]
  ELSE IF Truthy(DownloadLink(response))
  THEN [ok |-> TRUE, uri |-> DownloadLink(response)[1], error |-> <<>>]
  ELSE [ok |-> FALSE, uri |-> "", error |-> <<MalformedText>>]

\* mutant of Resolve: the empty list is looked at before the error message
Resolve_EmptyFirst(response) ==
  IF Truthy(DownloadLink(response))
  THEN [ok |-> TRUE, uri |-> DownloadLink(response)[1], error |-> <<>>]
  ELSE [ok |-> FALSE, uri |-> "", error |->
          IF Truthy(FilterReason(response))
          THEN <<SafetyPrefix, FilterReason(response)[1], ". Try a different prompt.">>
          ELSE IF NoGeneratedVideos(response)
          THEN <<EmptyText>>
          ELSE IF Truthy(ErrorMessage(response))
          THEN <<UpstreamPrefix, ErrorMessage(response)[1]>>
          ELSE <<MalformedText>>]

\* mutant of Resolve: the error message is looked at before the filter reason
Resolve_ErrorFirst(response) ==
  IF Truthy(DownloadLink(response))
  THEN [ok |-> TRUE, uri |-> DownloadLink(response)[1], error |-> <<>>]
  ELSE [ok |-> FALSE, uri |-> "", error |->
          IF Truthy(ErrorMessage(response))
          THEN <<UpstreamPrefix, ErrorMessage(response)[1]>>
          ELSE IF Truthy(FilterReason(response))
          THEN <<SafetyPrefix, FilterReason(response)[1], ". Try a different prompt.">>
          ELSE IF NoGeneratedVideos(response)
          THEN <<EmptyText>>
          ELSE <<MalformedText>>]

\* The outcome of lines 83-109: the locator to fetch, or the error thrown.
\* An error is its message, a sequence of the pieces it is put together from.
Resolve(response) ==
  IF Truthy(DownloadLink(response))
  THEN [ok |-> TRUE, uri |-> DownloadLink(response)[1], error |-> <<>>]
  ELSE [ok |-> FALSE, uri |-> "", error |->
          IF Truthy(FilterReason(response))
          THEN <<SafetyPrefix, FilterReason(response)[1], ". Try a different prompt.">>
          ELSE IF Truthy(ErrorMessage(response))
          THEN <<UpstreamPrefix, ErrorMessage(response)[1]>>
          ELSE IF NoGeneratedVideos(response)
          THEN <<EmptyText>>
          ELSE <<MalformedText>>]

(***************************************************************************)
(* generateVideo as a state machine.  A call is a record of the locals of  *)
(* the function and of the place it is suspended at:                       *)
(*   "submitting"  awaiting ai.models.generateVideos            (43 / 53)  *)
(*   "waiting"     awaiting the 5 second timer                       (68)  *)
(*   "checking"    awaiting operations.getVideosOperation            (76)  *)
(*   "fetching"    awaiting fetch(downloadLink)                     (112)  *)
(*   "blob"        awaiting downloadResponse.blob()                 (117)  *)
(*   "resolved", "rejected"   the promise has settled                      *)
(*   "idle"        no call                                                 *)
(* Each step below is the code that runs, without suspension, from one     *)
(* await to the next.  It yields the call after the step and the events    *)
(* the step causes, in order.                                              *)
(***************************************************************************)
MessageEvent(text) == [type |-> "message", arg |-> text]
WaitEvent == [type |-> "wait", arg |-> "5000"]
CheckEvent == [type |-> "check", arg |-> ""]
FetchEvent(uri) == [type |-> "fetch", arg |-> uri]
SubmitEvent(model) == [type |-> "submit", arg |-> model]
\* the response to the fetch has come: downloadResponse.ok, or its statusText
ResponseEvent(ok, statusText) ==
  [type |-> "response", arg |-> IF ok THEN "200" ELSE statusText]

IdleCall ==
  [pc |-> "idle", images |-> <<>>, prompt |-> "", aspectRatio |-> "",
   request |-> None, operation |-> None, messageIndex |-> 0,
   downloadLink |-> None, url |-> "", error |-> <<>>]

\* throw: the promise rejects with the error
Reject(c, e) == [c EXCEPT !.pc = "rejected", !.error = e]

\* lines 20-62: build the request and submit it
StartCall(images, prompt, aspectRatio) ==
  LET req == BuildRequest(images, prompt, aspectRatio)
  IN [call |-> [IdleCall EXCEPT !.pc = "submitting", !.images = images,
                                !.prompt = prompt, !.aspectRatio = aspectRatio,
                                !.request = Some(req)],
      events |-> <<SubmitEvent(req.model)>>]

\* mutant of ResolveStep: the download link is read only when the operation
\* was complete without a status check
ResolveStep_OnlyFirstAnswer(c) ==
  LET r == Resolve(c.operation[1].response)
  IN IF r.ok /\ c.messageIndex = 0
     THEN [call |-> [c EXCEPT !.pc = "fetching", !.downloadLink = Some(r.uri)],
           events |-> <<MessageEvent(FetchingMessage), FetchEvent(r.uri)>>]
     ELSE [call |-> Reject(c, IF r.ok THEN <<MalformedText>> ELSE r.error),
           events |-> <<>>]

\* lines 83-118 up to the fetch: classify the completed operation
ResolveStep(c) ==
  LET r == Resolve(c.operation[1].response)
  IN IF r.ok
     THEN [call |-> [c EXCEPT !.pc = "fetching", !.downloadLink = Some(r.uri)],
           events |-> <<MessageEvent(FetchingMessage), FetchEvent(r.uri)>>]
     ELSE [call |-> Reject(c, r.error), events |-> <<>>]

\* mutants of LoopContinues: the loop never tests the completion flag; the
\* loop gives up once the messages have been cycled through
LoopContinues_Always(c) == TRUE
LoopContinues_Capped(c) == ~c.operation[1].done /\ c.messageIndex < 5

\* while (!operation.done)
LoopContinues(c) == ~c.operation[1].done

\* line 67: the loop test, then either the next wait or the resolution
LoopTest(c) ==
  IF LoopContinues(c)
  THEN [call |-> [c EXCEPT !.pc = "waiting"], events |-> <<WaitEvent>>]
  ELSE ResolveStep(c)

\* generateVideos returned op: lines 64-67
SubmitReturned(c, op) ==
  LET c1 == [c EXCEPT !.operation = Some(op), !.messageIndex = 0]
      r == LoopTest(c1)
  IN [call |-> r.call,
      events |-> <<MessageEvent(LoadingMessageAt(c1.messageIndex))>> \o r.events]

\* generateVideos threw e: nothing catches it
SubmitThrew(c, e) == [call |-> Reject(c, e), events |-> <<>>]

\* mutant of TimerFired: the status check is issued before the message
TimerFired_CheckFirst(c) ==
  LET c1 == [c EXCEPT !.messageIndex = NextMessageIndex(c.messageIndex)]
  IN [call |-> [c1 EXCEPT !.pc = "checking"],
      events |-> <<CheckEvent, MessageEvent(LoadingMessageAt(c1.messageIndex))>>]

\* the timer fired: lines 70-76
TimerFired(c) ==
  LET c1 == [c EXCEPT !.messageIndex = NextMessageIndex(c.messageIndex)]
  IN [call |-> [c1 EXCEPT !.pc = "checking"],
      events |-> <<MessageEvent(LoadingMessageAt(c1.messageIndex)), CheckEvent>>]

\* getVideosOperation returned op: line 76, then the loop test
CheckReturned(c, op) == LoopTest([c EXCEPT !.operation = Some(op)])

\* mutant of CheckThrew: the catch swallows the error and polls again
CheckThrew_Retry(c, e) ==
  [call |-> [c EXCEPT !.pc = "waiting"], events |-> <<WaitEvent>>]

\* getVideosOperation threw e: lines 77-80
CheckThrew(c, e) == [call |-> Reject(c, e), events |-> <<>>]

\* mutant of FetchReturned: the status of the response is not looked at
FetchReturned_IgnoreStatus(c, ok, statusText) ==
  [call |-> [c EXCEPT !.pc = "blob"], events |-> <<ResponseEvent(ok, statusText)>>]

\* fetch returned: lines 113-117
FetchReturned(c, ok, statusText) ==
  IF ~ok
  THEN [call |-> Reject(c, <<DownloadPrefix, statusText>>),
        events |-> <<ResponseEvent(ok, statusText)>>]
  ELSE [call |-> [c EXCEPT !.pc = "blob"],
        events |-> <<ResponseEvent(ok, statusText)>>]

\* fetch or blob() threw e
DownloadThrew(c, e) == [call |-> Reject(c, e), events |-> <<>>]

\* blob() returned: line 118, url is the handle URL.createObjectURL makes
BlobReturned(c, url) ==
  [call |-> [c EXCEPT !.pc = "resolved", !.url = url], events |-> <<>>]

Settled(c) == c.pc \in {"resolved", "rejected"}

(***************************************************************************)
(* api/verify-password.ts: the handler.  A string is the sequence of its   *)
(* characters; a JavaScript value is tagged with its type.                 *)
(***************************************************************************)
Undefined == [type |-> "undefined", value |-> <<>>]
Str(s) == [type |-> "string", value |-> s]
Num(digits) == [type |-> "number", value |-> digits]

\* !v for a value of the request body
Falsy(v) ==
  \/ v.type = "undefined"
  \/ v.type = "string" /\ v.value = <<>>
  \/ v.type = "number" /\ v.value = <<"0">>

\* truthiness of process.env.X: unset and the empty string are falsy
IsSet(o) == o # None /\ o[1] # <<>>

\* the responses of the handler: res.status(n).json(body), or an exception
\* that leaves the handler before a response is sent
JsonError(status, message) ==
  [kind |-> "json", status |-> status, error |-> Some(message), apiKey |-> None]
JsonApiKey(status, apiKey) ==
  [kind |-> "json", status |-> status, error |-> None, apiKey |-> Some(apiKey)]
HandlerThrows(what) ==
  [kind |-> "throws", status |-> 0, error |-> Some(what), apiKey |-> None]

\* mutant of handler: the rejection of a wrong password tells the key
handler_LeakyRejection(req, env) ==
  IF req.method # "POST"
  THEN JsonError(405, "Method not allowed")
  ELSE IF req.body = None
  THEN HandlerThrows("TypeError")
  ELSE LET password == req.body[1].password
       IN IF Falsy(password) \/ password.type # "string"
          THEN JsonError(400, "Password is required")
          ELSE IF ~IsSet(env.ACCESS_PASSWORD) \/ ~IsSet(env.GEMINI_API_KEY)
          THEN JsonError(500, "Server is not configured. Set ACCESS_PASSWORD and GEMINI_API_KEY in Vercel environment variables.")
          ELSE IF password.value # env.ACCESS_PASSWORD[1]
          THEN [JsonError(401, "Invalid password") EXCEPT !.apiKey = env.GEMINI_API_KEY]
          ELSE JsonApiKey(200, env.GEMINI_API_KEY[1])

\* handler(req, res), lines 3-26.  Destructuring req.body (line 8) throws a
\* TypeError when the request has no body.
handler(req, env) ==
  IF req.method # "POST"
  THEN JsonError(405, "Method not allowed")
  ELSE IF req.body = None
  THEN HandlerThrows("TypeError")
  ELSE LET password == req.body[1].password
       IN IF Falsy(password) \/ password.type # "string"
          THEN JsonError(400, "Password is required")
          ELSE IF ~IsSet(env.ACCESS_PASSWORD) \/ ~IsSet(env.GEMINI_API_KEY)
          THEN JsonError(500, "Server is not configured. Set ACCESS_PASSWORD and GEMINI_API_KEY in Vercel environment variables.")
          ELSE IF password.value # env.ACCESS_PASSWORD[1]
          THEN JsonError(401, "Invalid password")
          ELSE JsonApiKey(200, env.GEMINI_API_KEY[1])

\* the inputs of the handler
Methods == {"GET", "POST"}
PasswordStrings == {<<>>, <<"p">>, <<"p", "q">>}
ApiKeys == {<<>>, <<"k", "1">>, <<"k", "2">>}
PasswordValues ==
  {Undefined, Num(<<"0">>), Num(<<"7">>)} \cup {Str(s) : s \in PasswordStrings}
Requests ==
  [method : Methods,
   body : {None} \cup {Some([password |-> v]) : v \in PasswordValues}]
Envs == [ACCESS_PASSWORD : OptOf(PasswordStrings), GEMINI_API_KEY : OptOf(ApiKeys)]

NoEnv == [ACCESS_PASSWORD |-> None, GEMINI_API_KEY |-> None]
\* no request handled yet
IdleServer ==
  [env |-> NoEnv, env2 |-> NoEnv, req |-> None, res |-> None, res2 |-> None]

(***************************************************************************)
(* googleDriveService.ts: shareVideoToDrive.  The call is a record; the    *)
(* code between two awaits is one step.  A message is the sequence of its  *)
(* pieces.                                                                 *)
(***************************************************************************)
\* what the call asks of the outside, in the order it asks
TokenEvent == [type |-> "token", arg |-> "", role |-> "", to |-> ""]
BlobEvent(videoUrl) == [type |-> "blob", arg |-> videoUrl, role |-> "", to |-> ""]
UploadEvent == [type |-> "upload", arg |-> "multipart", role |-> "", to |-> ""]
PermissionEvent(fileId) ==
  [type |-> "permission", arg |-> fileId, role |-> "writer", to |-> "anyone"]
FileMetaEvent(fileId) ==
  [type |-> "metadata", arg |-> fileId, role |-> "", to |-> ""]

ClientIdError == "Google Client ID is not configured. Sharing is disabled."
DriveKeyError == "API Key is not configured. Sharing is disabled."
NotLoadedError == "Google Identity Services library not loaded."
UnknownAuthError == "Unknown error during authentication."
UploadPrefix == "Failed to upload file: "
NoFileIdError == "File ID not found after upload."
PermissionPrefix == "Failed to set permissions: "
FileMetaError == "Could not retrieve file metadata after setting permissions."
NoLinkError == "Shareable link (webViewLink) not found in file metadata."
SharingPrefix == "Sharing failed: "
UnknownSharingError == "An unknown error occurred during the sharing process."

\* what fetch and json() throw: messages of the browser, the same at every step
FailedToFetch == "Failed to fetch"
JsonSyntaxError == "Unexpected token < in JSON at position 0"
NoErrorField == "Cannot read properties of undefined (reading 'message')"
\* what initTokenClient throws
TokenClientError == "Missing required parameter client_id."

\* a thrown value: an Error with a message, or something that is not an Error
AnError(message) == [isError |-> TRUE, message |-> message]
NotAnError == [isError |-> FALSE, message |-> <<>>]

\* no shareVideoToDrive call
IdleShare ==
  [pc |-> "idle", videoUrl |-> "", accessToken |-> "", events |-> <<>>,
   fileId |-> "", link |-> "", error |-> <<>>, failedAt |-> ""]

\* catch (error), lines 130-136
ShareCaught(s, step, e) ==
  [s EXCEPT !.pc = "rejected", !.failedAt = step,
            !.error = IF e.isError THEN <<SharingPrefix>> \o e.message
                      ELSE <<UnknownSharingError>>]

\* shareVideoToDrive up to its first await, lines 51-60; the two
\* configuration errors are thrown outside the try
ShareVideoToDrive(url, clientIdSet, apiKeySet) ==
  IF ~clientIdSet
  THEN [IdleShare EXCEPT !.pc = "rejected", !.videoUrl = url,
                         !.failedAt = "configuration", !.error = <<ClientIdError>>]
  ELSE IF ~apiKeySet
  THEN [IdleShare EXCEPT !.pc = "rejected", !.videoUrl = url,
                         !.failedAt = "configuration", !.error = <<DriveKeyError>>]
  ELSE [IdleShare EXCEPT !.pc = "token", !.videoUrl = url,
                         !.events = <<TokenEvent>>]

\* getAccessToken, lines 13-20: the library is still missing after 500 ms
TokenNotLoaded(s) == ShareCaught(s, "token", AnError(<<NotLoadedError>>))

\* requestToken, lines 40-42: initTokenClient or requestAccessToken throws
TokenThrew(s, e) == ShareCaught(s, "token", e)

\* the callback of the token client, lines 32-37, and line 61
TokenCallback(s, tokenResponse) ==
  IF Truthy(tokenResponse.error)
  THEN ShareCaught(s, "token",
         AnError(IF Truthy(tokenResponse.error_description)
                 THEN <<tokenResponse.error_description[1]>>
                 ELSE <<UnknownAuthError>>))
  ELSE [s EXCEPT !.pc = "blob", !.accessToken = tokenResponse.access_token,
                 !.events = @ \o <<BlobEvent(s.videoUrl)>>]

\* fetch(videoUrl).then(res => res.blob()) settles, lines 61-79
BlobRead(s) == [s EXCEPT !.pc = "upload", !.events = @ \o <<UploadEvent>>]
BlobThrew(s, e) == ShareCaught(s, "blob", e)

\* the upload has answered, lines 81-104; json() of a body that is not JSON
\* throws, and so does errorData.error.message without an error field
UploadResponded(s, resp) ==
  IF resp.body = None
  THEN ShareCaught(s, "upload", AnError(<<JsonSyntaxError>>))
  ELSE IF ~resp.ok
  THEN IF resp.body[1].error = None
       THEN ShareCaught(s, "upload", AnError(<<NoErrorField>>))
       ELSE ShareCaught(s, "upload",
              AnError(<<UploadPrefix, resp.body[1].error[1]>>))
  ELSE IF resp.body[1].id = None
  THEN ShareCaught(s, "upload", AnError(<<NoFileIdError>>))
  ELSE [s EXCEPT !.pc = "permission", !.fileId = resp.body[1].id[1],
                 !.events = @ \o <<PermissionEvent(resp.body[1].id[1])>>]
UploadThrew(s, e) == ShareCaught(s, "upload", e)

\* the permission request has answered, lines 106-116
PermissionResponded(s, resp) ==
  IF ~resp.ok
  THEN IF resp.body = None
       THEN ShareCaught(s, "permission", AnError(<<JsonSyntaxError>>))
       ELSE IF resp.body[1].error = None
       THEN ShareCaught(s, "permission", AnError(<<NoErrorField>>))
       ELSE ShareCaught(s, "permission",
              AnError(<<PermissionPrefix, resp.body[1].error[1]>>))
  ELSE [s EXCEPT !.pc = "metadata", !.events = @ \o <<FileMetaEvent(s.fileId)>>]
PermissionThrew(s, e) == ShareCaught(s, "permission", e)

\* the metadata request has answered, lines 118-128
FileMetaResponded(s, resp) ==
  IF ~resp.ok
  THEN ShareCaught(s, "metadata", AnError(<<FileMetaError>>))
  ELSE IF resp.body = None
  THEN ShareCaught(s, "metadata", AnError(<<JsonSyntaxError>>))
  ELSE IF resp.body[1].webViewLink = None
  THEN ShareCaught(s, "metadata", AnError(<<NoLinkError>>))
  ELSE [s EXCEPT !.pc = "resolved", !.link = resp.body[1].webViewLink[1]]
FileMetaThrew(s, e) == ShareCaught(s, "metadata", e)

ShareSettled(s) == s.pc \in {"resolved", "rejected"}

\* the answers of the outside
FileIds == {"file-1", "file-2"}
WebViewLinks ==
  {"https://drive.google.com/file/d/file-1/view",
   "https://drive.google.com/file/d/file-2/view"}
DriveErrorTexts == {"Quota exceeded", "Insufficient permissions"}
AuthErrorTexts == {"access_denied"}
AccessTokens == {"ya29.a", "ya29.b"}
TokenResponses ==
  [error : OptOf(AuthErrorTexts), error_description : OptOf({"User denied"}),
   access_token : AccessTokens]
DriveBodies ==
  [id : OptOf(FileIds), error : OptOf(DriveErrorTexts),
   webViewLink : OptOf(WebViewLinks)]
DriveResponses == [ok : BOOLEAN, body : OptOf(DriveBodies)]
\* fetch rejects with a TypeError; the token client throws an Error of its own
FetchThrows == {AnError(<<FailedToFetch>>)}
TokenThrows == {AnError(<<TokenClientError>>)}

(***************************************************************************)
(* ApiKeySelector.tsx.  What is typed is a sequence of characters.         *)
(***************************************************************************)
MaxInput == 2
Characters == {" ", "p"}
InputTexts == SeqsOf(Characters, 0, MaxInput)

RECURSIVE TrimStart(_)
TrimStart(text) ==
  IF text = <<>> THEN text
  ELSE IF text[1] = " " THEN TrimStart(Tail(text))
  ELSE text
RECURSIVE TrimEnd(_)
TrimEnd(text) ==
  IF text = <<>> THEN text
  ELSE IF text[Len(text)] = " " THEN TrimEnd(SubSeq(text, 1, Len(text) - 1))
  ELSE text
\* mutant of Trim: only the front is trimmed
Trim_StartOnly(text) == TrimStart(text)
\* String.prototype.trim
Trim(text) == TrimEnd(TrimStart(text))

EnterKeyError == "Please enter your API key."
EnterPasswordError == "Please enter the password."
VerificationFailed == "Verification failed."
ConnectError == "Failed to connect to the server."

\* useState initial values of ApiKeySelector, lines 9-13; pending is the
\* request in flight; did, input, ready and sent tell what the last handler
\* was, what it read, and what it called and sent
InitSelector ==
  [mode |-> "choose", apiKeyInput |-> <<>>, passwordInput |-> <<>>,
   loading |-> FALSE, localError |-> None, pending |-> None,
   did |-> "", input |-> <<>>, ready |-> None, sent |-> None, answer |-> None]

\* what a handler starts from
Handling(s, name, text) ==
  [s EXCEPT !.did = name, !.input = text, !.ready = None, !.sent = None,
            !.answer = None]

\* the mode buttons, lines 70, 76, 98, 134
SetMode(s, m) == [Handling(s, "mode", <<>>) EXCEPT !.mode = m, !.localError = None]
\* onChange of the two inputs, lines 115 and 151
SetApiKeyInput(s, text) == [Handling(s, "type", text) EXCEPT !.apiKeyInput = text]
SetPasswordInput(s, text) ==
  [Handling(s, "type", text) EXCEPT !.passwordInput = text]

\* mutant of HandleApiKeySubmit: the key is passed on as it was typed
HandleApiKeySubmit_Untrimmed(s) ==
  LET key == s.apiKeyInput
  IN IF key = <<>>
     THEN [Handling(s, "apikey", s.apiKeyInput) EXCEPT
             !.localError = Some(EnterKeyError)]
     ELSE [Handling(s, "apikey", s.apiKeyInput) EXCEPT !.ready = Some(key)]

\* handleApiKeySubmit, lines 15-23
HandleApiKeySubmit(s) ==
  LET key == Trim(s.apiKeyInput)
  IN IF key = <<>>
     THEN [Handling(s, "apikey", s.apiKeyInput) EXCEPT
             !.localError = Some(EnterKeyError)]
     ELSE [Handling(s, "apikey", s.apiKeyInput) EXCEPT !.ready = Some(key)]

\* handlePasswordSubmit up to its await, lines 25-41
HandlePasswordSubmit(s) ==
  LET pw == Trim(s.passwordInput)
  IN IF pw = <<>>
     THEN [Handling(s, "password", s.passwordInput) EXCEPT
             !.localError = Some(EnterPasswordError)]
     ELSE [Handling(s, "password", s.passwordInput) EXCEPT
             !.loading = TRUE, !.localError = None,
             !.pending = Some(pw), !.sent = Some(pw)]

\* the request of lines 37-41 as the handler gets it
VerifyRequest(pw) ==
  [method |-> "POST", body |-> Some([password |-> Str(pw)])]

\* mutant of PasswordResponded: the status of the response is not looked at
PasswordResponded_IgnoreStatus(s, res) ==
  IF res.kind # "json"
  THEN [Handling(s, "response", <<>>) EXCEPT
          !.answer = Some(res), !.pending = None, !.loading = FALSE,
          !.localError = Some(ConnectError)]
  ELSE [Handling(s, "response", <<>>) EXCEPT
          !.answer = Some(res), !.pending = None, !.loading = FALSE,
          !.ready = Some(IF res.apiKey = None THEN <<>> ELSE res.apiKey[1])]

\* handlePasswordSubmit after the response, lines 43-55; a response that is
\* not JSON makes res.json() throw
PasswordResponded(s, res) ==
  IF res.kind # "json"
  THEN [Handling(s, "response", <<>>) EXCEPT
          !.answer = Some(res), !.pending = None, !.loading = FALSE,
          !.localError = Some(ConnectError)]
  ELSE IF res.status # 200
  THEN [Handling(s, "response", <<>>) EXCEPT
          !.answer = Some(res), !.pending = None, !.loading = FALSE,
          !.localError = IF Truthy(res.error) THEN res.error
                         ELSE Some(VerificationFailed)]
  ELSE [Handling(s, "response", <<>>) EXCEPT
          !.answer = Some(res), !.pending = None, !.loading = FALSE,
          !.ready = res.apiKey]

\* the fetch of line 37 rejects: catch, lines 51-55
PasswordFetchFailed(s) ==
  [Handling(s, "response", <<>>) EXCEPT
     !.pending = None, !.loading = FALSE, !.localError = Some(ConnectError)]

\* the configurations of the server the selector talks to
SelectorEnvs ==
  {NoEnv,
   [ACCESS_PASSWORD |-> Some(<<"p">>), GEMINI_API_KEY |-> Some(<<"k", "1">>)]}

(***************************************************************************)
(* State.                                                                  *)
(***************************************************************************)
VARIABLES
  call,            \* the generateVideo call under study
  events,          \* history: the events of that call, in order
  polls,           \* history: the status checks issued by that call
  thrown,          \* history: the error a backend request of that call threw
  loadingMessage,  \* App state: what setLoadingMessage last set
  \* App.tsx, lines 37-45
  apiKeySelected, isCheckingApiKey, videoUrl, isGenerating, error,
  shareUrl, shareError,
  \* the object URLs created for videos and not revoked
  objectUrls,
  \* App.tsx, line 43, and the shareVideoToDrive call in flight
  isSharing, share,
  \* ApiKeySelector.tsx: the state of the selector, and what it has asked for
  selector,
  \* api/verify-password.ts: the environment of the handler, a request and
  \* the response to it
  server,
  \* VideoGeneratorForm.tsx, lines 18-24: the state of the mounted form
  imageFiles, imagePreviews, prompt, aspectRatio, formError,
  suggestions, isSuggesting,
  \* the handleSubmit / handleGeneration invocations in flight
  tasks

callVars == <<call, events, polls, thrown>>
appVars == <<apiKeySelected, isCheckingApiKey, videoUrl, isGenerating, error,
             shareUrl, shareError, objectUrls, isSharing, share, selector, server>>
formVars == <<imageFiles, imagePreviews, prompt, aspectRatio, formError,
              suggestions, isSuggesting>>
vars == <<callVars, loadingMessage, appVars, formVars, tasks>>

\* the last message of a step's events is the one left in loadingMessage
LastMessage(evs, old) ==
  LET idx == {i \in 1..Len(evs) : evs[i].type = "message"}
  IN IF idx = {} THEN old
     ELSE evs[CHOOSE i \in idx : \A j \in idx : j <= i].arg

(***************************************************************************)
(* Spec: one call of generateVideo at a time, with its history.            *)
(***************************************************************************)
DefaultPrompt == "Bring this memory to life with gentle, nostalgic motion."

\* a task slot with no invocation in it
FreeTask ==
  [stage |-> "free", formAlive |-> FALSE, files |-> <<>>, prompt |-> "",
   aspectRatio |-> "", call |-> IdleCall]

\* the slots for the invocations that may be in flight together
Tasks == {1, 2}

\* useState initial values of VideoGeneratorForm
InitForm ==
  /\ imageFiles = <<>>
  /\ imagePreviews = <<>>
  /\ prompt = DefaultPrompt
  /\ aspectRatio = "16:9"
  /\ formError = None
  /\ suggestions = <<>>
  /\ isSuggesting = FALSE

\* useState initial values of App
InitApp ==
  /\ apiKeySelected = FALSE
  /\ isCheckingApiKey = TRUE
  /\ videoUrl = None
  /\ isGenerating = FALSE
  /\ error = None
  /\ shareUrl = None
  /\ shareError = None
  /\ objectUrls = {}
  /\ isSharing = FALSE
  /\ share = IdleShare
  /\ selector = InitSelector
  /\ server = IdleServer

Init ==
  /\ call = IdleCall
  /\ events = <<>>
  /\ polls = 0
  /\ thrown = None
  /\ loadingMessage = ""
  /\ InitApp
  /\ InitForm
  /\ tasks = [t \in Tasks |-> FreeTask]

\* take the step r, recording its events
Take(r) ==
  /\ call' = r.call
  /\ events' = events \o r.events
  /\ loadingMessage' = LastMessage(r.events, loadingMessage)
  /\ UNCHANGED <<appVars, formVars, tasks>>

Call ==
  /\ call.pc = "idle"
  /\ \E images \in SeqsOf(ImageParts, 1, 3), p \in Prompts, ar \in AspectRatios :
       LET r == StartCall(images, p, ar)
       IN /\ call' = r.call
          /\ events' = r.events
          /\ polls' = 0
          /\ thrown' = None
          /\ UNCHANGED <<loadingMessage, appVars, formVars, tasks>>

GenSubmitReturned ==
  /\ call.pc = "submitting"
  /\ \E op \in Operations : Take(SubmitReturned(call, op))
  /\ UNCHANGED <<polls, thrown>>

GenSubmitThrew ==
  /\ call.pc = "submitting"
  /\ \E e \in ThrownMessages :
       /\ Take(SubmitThrew(call, e))
       /\ thrown' = Some([at |-> "submit", error |-> e])
  /\ UNCHANGED polls

GenTimerFired ==
  /\ call.pc = "waiting"
  /\ Take(TimerFired(call))
  /\ polls' = polls + 1
  /\ UNCHANGED thrown

GenCheckReturned ==
  /\ call.pc = "checking"
  /\ \E op \in Operations :
       /\ ~op.done => polls < MaxPolls
       /\ Take(CheckReturned(call, op))
  /\ UNCHANGED <<polls, thrown>>

GenCheckThrew ==
  /\ call.pc = "checking"
  /\ \E e \in ThrownMessages :
       /\ Take(CheckThrew(call, e))
       /\ thrown' = Some([at |-> "check", error |-> e])
  /\ UNCHANGED polls

GenFetchReturned ==
  /\ call.pc = "fetching"
  /\ \E ok \in BOOLEAN, st \in StatusTexts : Take(FetchReturned(call, ok, st))
  /\ UNCHANGED <<polls, thrown>>

GenDownloadThrew ==
  /\ call.pc \in {"fetching", "blob"}
  /\ \E e \in ThrownMessages :
       /\ Take(DownloadThrew(call, e))
       /\ thrown' = Some([at |-> "download", error |-> e])
  /\ UNCHANGED polls

GenBlobReturned ==
  /\ call.pc = "blob"
  /\ \E url \in ObjectUrls : Take(BlobReturned(call, url))
  /\ UNCHANGED <<polls, thrown>>

\* the caller has taken the settled promise's result: the locals are gone
Return ==
  /\ Settled(call)
  /\ call' = IdleCall
  /\ events' = <<>>
  /\ polls' = 0
  /\ thrown' = None
  /\ UNCHANGED <<loadingMessage, appVars, formVars, tasks>>

Next ==
  \/ Call
  \/ Return
  \/ GenSubmitReturned
  \/ GenSubmitThrew
  \/ GenTimerFired
  \/ GenCheckReturned
  \/ GenCheckThrew
  \/ GenFetchReturned
  \/ GenDownloadThrew
  \/ GenBlobReturned

Spec == Init /\ [][Next]_vars

TypeOK ==
  /\ call.pc \in {"idle", "submitting", "waiting", "checking", "fetching",
                  "blob", "resolved", "rejected"}
  /\ call.messageIndex \in 0..5
  /\ polls \in 0..(MaxPolls + 1)

(***************************************************************************)
(* Properties of generateVideo, checked under Spec.                        *)
(***************************************************************************)
InCall == call.pc # "idle"
InLoop == call.pc \in {"waiting", "checking"}
OperationDone == call.operation # None /\ call.operation[1].done
TheResponse == call.operation[1].response

IndicesOf(type) == {i \in 1..Len(events) : events[i].type = type}
NumberOf(type) == Cardinality(IndicesOf(type))
\* the events of type `type` among the first i events
NumberUpTo(type, i) == Cardinality({j \in IndicesOf(type) : j <= i})

\* C1: the request shape depends on the image count alone: 1 image gives the
\* primary image field, no referenceImages and the fast model; 2 or 3 images
\* give referenceImages, no primary image and the standard model; never both
\* fields, never the fast model with a reference list.
C1_RequestShape ==
  InCall =>
    LET req == call.request[1]
        n == Len(call.images)
    IN /\ n \in 1..3
       /\ n = 1 =>
            /\ req.image = Some([imageBytes |-> call.images[1].data,
                                 mimeType |-> call.images[1].mimeType])
            /\ req.config.referenceImages = None
            /\ req.model = "veo-3.1-fast-generate-preview"
       /\ n \in {2, 3} =>
            /\ req.config.referenceImages # None
            /\ req.image = None
            /\ req.model = "veo-3.1-generate-preview"
       /\ ~(req.image # None /\ req.config.referenceImages # None)
       /\ ~(req.model = "veo-3.1-fast-generate-preview"
              /\ req.config.referenceImages # None)
       /\ events[1] = SubmitEvent(req.model)

C1_Witness ==
  /\ call.pc = "submitting"
  /\ Len(call.images) = 3
  /\ call.request[1].config.referenceImages # None

\* C4: the initial progress message comes before any status check; every
\* iteration is exactly (wait, progress message, status check); so each check
\* directly follows one message and one wait, and the k-th check comes after
\* exactly k+1 progress messages.
C4_PollOrder ==
  (InCall /\ call.pc # "submitting"
     /\ ~(thrown # None /\ thrown[1].at = "submit")) =>
    /\ Len(events) >= 2
    /\ events[2] = MessageEvent(LOADING_MESSAGES[1])
    /\ \A i \in IndicesOf("check") :
         /\ i >= 5
         /\ events[i - 1].type = "message"
         /\ events[i - 2] = WaitEvent
         /\ NumberUpTo("message", i) = NumberUpTo("check", i) + 1
         /\ NumberUpTo("wait", i) = NumberUpTo("check", i)
    /\ \A i \in IndicesOf("wait") :
         /\ events[i - 1].type \in {"message", "check"}
         /\ i < Len(events) =>
              /\ i + 2 <= Len(events)
              /\ events[i + 1].type = "message"
              /\ events[i + 2] = CheckEvent
    /\ \A i \in IndicesOf("message") :
         \/ i = 2
         \/ events[i - 1] = WaitEvent
         \/ events[i] = MessageEvent(FetchingMessage)

C4_Witness ==
  /\ call.pc = "waiting"
  /\ NumberOf("check") = 2
  /\ NumberOf("message") = 3

\* C5: in the poll loop the message index is within 0..5, starts at 0 and
\* advances by one modulo 6 at each poll: after k polls it is k mod 6 and the
\* message shown is the (k mod 6)-th entry of the list.
C5_IndexCycles ==
  InLoop =>
    /\ call.messageIndex \in 0..(Len(LOADING_MESSAGES) - 1)
    /\ Len(LOADING_MESSAGES) = 6
    /\ call.messageIndex = polls % 6
    /\ polls = NumberOf("check")
    /\ loadingMessage = LOADING_MESSAGES[(polls % 6) + 1]

C5_Witness == call.pc = "checking" /\ polls = 8 /\ call.messageIndex = 2

\* C6 as the spec states it: after exactly 7 polls the message index is 0.
C6_Original == (InLoop /\ polls = 7) => call.messageIndex = 0

\* C6, amended: after exactly 7 polls the message index is 1, the second
\* message being shown; the index is back at 0 after exactly 6 polls, when
\* the 7th progress message is emitted.
C6_SevenPolls ==
  /\ (InLoop /\ polls = 7) =>
       /\ call.messageIndex = 1
       /\ loadingMessage = LOADING_MESSAGES[2]
  /\ (InLoop /\ polls = 6) =>
       /\ call.messageIndex = 0
       /\ loadingMessage = LOADING_MESSAGES[1]
       /\ NumberOf("message") = 7

C6_Witness == call.pc = "waiting" /\ polls = 7 /\ NumberOf("check") = 7

\* C7: when a status check throws, generateVideo rejects at once with that
\* same error: the failed check is the last thing it did (no wait, check,
\* message or fetch after it), and nothing is classified or retried.
C7_CheckThrowIsFatal ==
  (thrown # None /\ thrown[1].at = "check") =>
    /\ call.pc = "rejected"
    /\ call.error = thrown[1].error
    /\ events[Len(events)] = CheckEvent
    /\ NumberOf("check") = polls
    /\ NumberOf("fetch") = 0
    /\ call.downloadLink = None
    /\ ~OperationDone
    /\ loadingMessage = LOADING_MESSAGES[call.messageIndex + 1]

C7_Witness ==
  /\ thrown # None
  /\ thrown[1].at = "check"
  /\ polls = 3
  /\ call.pc = "rejected"

\* once the operation is complete the call is out of the loop and every wait
\* and check of the call was issued before the fetch
C9_NoCheckAfterDone ==
  /\ OperationDone =>
       /\ ~InLoop
       /\ NumberOf("check") = polls
       /\ NumberOf("wait") = polls
       /\ \A i \in IndicesOf("fetch") :
            \A j \in IndicesOf("wait") \cup IndicesOf("check") : j < i
  /\ InLoop => (call.operation # None /\ ~call.operation[1].done)

\* a complete operation is never replaced, and the loop is not entered again
C9_DoneIsFinal ==
  [][OperationDone =>
       \/ call'.pc = "idle"
       \/ /\ call'.operation = call.operation
          /\ ~(call'.pc \in {"waiting", "checking"})]_vars

\* C9: a status check or a wait is issued only while the held operation is
\* incomplete: once it is complete no check or wait follows, the operation
\* goes from incomplete to complete at most once and never back; an operation
\* that is complete when submitted is resolved with no wait and no check.
C9_OnceDone == []C9_NoCheckAfterDone /\ C9_DoneIsFinal

C9_Witness ==
  /\ call.pc = "blob"
  /\ OperationDone
  /\ polls = 0
  /\ NumberOf("wait") = 0

\* a usable locator: present and non-empty
UsableEntry(e) ==
  /\ e.video # None
  /\ e.video[1].uri # None
  /\ e.video[1].uri[1] # ""

GenerationFailures == {SafetyPrefix, UpstreamPrefix, EmptyText, MalformedText}

FetchIssuedFor(uri) ==
  /\ \E i \in 1..(Len(events) - 1) :
       /\ events[i] = MessageEvent("Fetching generated video...")
       /\ events[i + 1] = FetchEvent(uri)
  /\ ~(call.pc = "rejected" /\ call.error[1] \in GenerationFailures)

\* C10 as stated: a usable locator at ANY position of the list means success
C10_Original ==
  (OperationDone /\ TheResponse # None
     /\ TheResponse[1].generatedVideos # None) =>
    LET vs == TheResponse[1].generatedVideos[1]
    IN \A i \in 1..Len(vs) : UsableEntry(vs[i]) => FetchIssuedFor(vs[i].video[1].uri[1])

\* C10, amended: a completed operation whose FIRST generated-video entry has
\* a non-empty locator resolves successfully: the "fetching" message is
\* emitted, that locator is fetched and no generation failure is raised.
C10_FirstEntryLocator ==
  (OperationDone /\ TheResponse # None
     /\ TheResponse[1].generatedVideos # None) =>
    LET vs == TheResponse[1].generatedVideos[1]
    IN (Len(vs) >= 1 /\ UsableEntry(vs[1])) =>
         /\ FetchIssuedFor(vs[1].video[1].uri[1])
         /\ call.downloadLink = vs[1].video[1].uri

C10_Witness ==
  /\ call.pc = "fetching"
  /\ TheResponse # None
  /\ TheResponse[1].generatedVideos # None
  /\ Len(TheResponse[1].generatedVideos[1]) = 2
  /\ UsableEntry(TheResponse[1].generatedVideos[1][1])
  /\ ~UsableEntry(TheResponse[1].generatedVideos[1][2])
  /\ TheResponse[1].error # None

(***************************************************************************)
(* LiveSpec: the same call with no bound on the number of status checks.   *)
(* The history variables are not kept, so the poll loop is a cycle of the  *)
(* state graph.  Fairness: the timer of line 68 fires; a request to the    *)
(* backend returns or throws; and the backend does not answer "incomplete" *)
(* forever (strong fairness of a check that completes or throws).          *)
(***************************************************************************)
LiveTake(r) ==
  /\ call' = r.call
  /\ loadingMessage' = LastMessage(r.events, loadingMessage)
  /\ UNCHANGED <<events, polls, thrown, appVars, formVars, tasks>>

\* the inputs of a call do not bear on its termination: one image part, at
\* each of the three counts, and one aspect ratio
LiveImageParts == {[data |-> "AAAA", mimeType |-> "image/png"]}
LiveAspectRatios == {"16:9"}
\* and the backend answers with at most the one video asked for
LiveOperations ==
  {op \in Operations :
     (op.response # None /\ op.response[1].generatedVideos # None)
        => Len(op.response[1].generatedVideos[1]) <= 1}

LiveCall ==
  /\ call.pc = "idle"
  /\ \E images \in SeqsOf(LiveImageParts, 1, 3), p \in Prompts,
        ar \in LiveAspectRatios :
       /\ call' = StartCall(images, p, ar).call
       /\ UNCHANGED <<events, polls, thrown, loadingMessage, appVars, formVars, tasks>>

LiveSubmitSettles ==
  /\ call.pc = "submitting"
  /\ \/ \E op \in LiveOperations : LiveTake(SubmitReturned(call, op))
     \/ \E e \in ThrownMessages : LiveTake(SubmitThrew(call, e))

LiveTimerFired ==
  /\ call.pc = "waiting"
  /\ LiveTake(TimerFired(call))

LiveCheckIncomplete ==
  /\ call.pc = "checking"
  /\ \E op \in LiveOperations : ~op.done /\ LiveTake(CheckReturned(call, op))

LiveCheckCompleted ==
  /\ call.pc = "checking"
  /\ \E op \in LiveOperations : op.done /\ LiveTake(CheckReturned(call, op))

LiveCheckThrew ==
  /\ call.pc = "checking"
  /\ \E e \in ThrownMessages : LiveTake(CheckThrew(call, e))

LiveFetchSettles ==
  /\ call.pc = "fetching"
  /\ \/ \E ok \in BOOLEAN, st \in StatusTexts : LiveTake(FetchReturned(call, ok, st))
     \/ \E e \in ThrownMessages : LiveTake(DownloadThrew(call, e))

LiveBlobSettles ==
  /\ call.pc = "blob"
  /\ \/ \E url \in ObjectUrls : LiveTake(BlobReturned(call, url))
     \/ \E e \in ThrownMessages : LiveTake(DownloadThrew(call, e))

LiveReturn ==
  /\ Settled(call)
  /\ call' = IdleCall
  /\ UNCHANGED <<events, polls, thrown, loadingMessage, appVars, formVars, tasks>>

LiveNext ==
  \/ LiveCall
  \/ LiveSubmitSettles
  \/ LiveTimerFired
  \/ LiveCheckIncomplete
  \/ LiveCheckCompleted
  \/ LiveCheckThrew
  \/ LiveFetchSettles
  \/ LiveBlobSettles
  \/ LiveReturn

LiveFairness ==
  /\ WF_vars(LiveSubmitSettles)
  /\ WF_vars(LiveTimerFired)
  /\ WF_vars(LiveCheckIncomplete \/ LiveCheckCompleted \/ LiveCheckThrew)
  /\ SF_vars(LiveCheckCompleted \/ LiveCheckThrew)
  /\ WF_vars(LiveFetchSettles)
  /\ WF_vars(LiveBlobSettles)

LiveSpec == Init /\ [][LiveNext]_vars /\ LiveFairness

\* the same, but the backend may answer "incomplete" forever
LiveSpecNoCompletion ==
  /\ Init /\ [][LiveNext]_vars
  /\ WF_vars(LiveSubmitSettles)
  /\ WF_vars(LiveTimerFired)
  /\ WF_vars(LiveCheckIncomplete \/ LiveCheckCompleted \/ LiveCheckThrew)
  /\ WF_vars(LiveFetchSettles)
  /\ WF_vars(LiveBlobSettles)

\* a check that returns an incomplete operation is followed by another wait
C8_AnotherCheckFollows ==
  [][(call.pc = "checking" /\ call'.pc # "rejected"
        /\ ~call'.operation[1].done) => call'.pc = "waiting"]_vars

\* the loop is left only when a check returns a complete operation or throws
C8_LoopExit ==
  [][(InLoop /\ ~(call'.pc \in {"waiting", "checking"})) =>
       /\ call.pc = "checking"
       /\ \/ call'.operation[1].done
          \/ /\ call'.pc = "rejected"
             /\ call'.error \in ThrownMessages
             /\ call'.operation = call.operation]_vars

\* whatever the number of checks before, a check may return "incomplete" and
\* the loop goes on
C8_NoCap ==
  [](call.pc = "checking" => ENABLED (LiveCheckIncomplete /\ call'.pc = "waiting"))

\* every call eventually settles
C8_Settles == (call.pc = "submitting") ~> Settled(call)

\* C8: there is no cap on the status checks: a check that returns an
\* incomplete operation is always followed by another one, whatever the
\* number of checks before; the loop is left only when a check returns a
\* complete operation or throws; and, the backend not answering
\* "incomplete" forever, every call of generateVideo eventually settles.
\* (Under LiveSpecNoCompletion, where it may, C8_Settles fails: the call
\* polls forever.)
C8_UnboundedPolling ==
  C8_AnotherCheckFollows /\ C8_LoopExit /\ C8_NoCap /\ C8_Settles

C8_Witness ==
  /\ call.pc = "checking"
  /\ call.messageIndex = 0
  /\ loadingMessage = LOADING_MESSAGES[1]

(***************************************************************************)
(* ResolveSpec: one call of generateVideo, with its history, against every *)
(* shape of completed operation: an entry may lack its video object, the   *)
(* error object may lack its message, and a filter reason or a message may *)
(* be the empty string.  The call is made with one image; an operation is  *)
(* complete when submitted or after at most MaxResolvePolls status checks. *)
(***************************************************************************)
\* status checks that may return an incomplete operation in ResolveSpec
MaxResolvePolls == 2

WideVideoObjs ==
  [uri : OptOf(Uris), filterReason : OptOf(FilterReasons \cup {""})]
WideEntries == [video : OptOf(WideVideoObjs)]
WideResponses ==
  [generatedVideos : OptOf(SeqsOf(WideEntries, 0, MaxVideos)),
   error : OptOf([message : OptOf(ErrorMessages \cup {""})])]
WideOperations ==
  {[done |-> FALSE, response |-> None]}
    \cup {[done |-> TRUE, response |-> r] : r \in OptOf(WideResponses)}

ResCall ==
  /\ call.pc = "idle"
  /\ \E images \in SeqsOf(LiveImageParts, 1, 1), p \in Prompts,
        ar \in LiveAspectRatios :
       LET r == StartCall(images, p, ar)
       IN /\ call' = r.call
          /\ events' = r.events
          /\ polls' = 0
          /\ thrown' = None
          /\ UNCHANGED <<loadingMessage, appVars, formVars, tasks>>

ResSubmitReturned ==
  /\ call.pc = "submitting"
  /\ \E op \in WideOperations : Take(SubmitReturned(call, op))
  /\ UNCHANGED <<polls, thrown>>

ResCheckReturned ==
  /\ call.pc = "checking"
  /\ \E op \in WideOperations :
       /\ ~op.done => polls < MaxResolvePolls
       /\ Take(CheckReturned(call, op))
  /\ UNCHANGED <<polls, thrown>>

ResolveNext ==
  \/ ResCall
  \/ Return
  \/ ResSubmitReturned
  \/ GenSubmitThrew
  \/ GenTimerFired
  \/ ResCheckReturned
  \/ GenCheckThrew
  \/ GenFetchReturned
  \/ GenDownloadThrew
  \/ GenBlobReturned

ResolveSpec == Init /\ [][ResolveNext]_vars

(***************************************************************************)
(* Properties of the result resolution, checked under ResolveSpec.  The    *)
(* entry of a response is the one generateVideo reads, generatedVideos[0]. *)
(***************************************************************************)
\* the generated-video list of the completed operation, <<>> when absent
TheVideos ==
  IF TheResponse = None \/ TheResponse[1].generatedVideos = None
  THEN <<>>
  ELSE TheResponse[1].generatedVideos[1]

\* the entry read has a non-empty locator
HasLocator ==
  /\ Len(TheVideos) >= 1
  /\ TheVideos[1].video # None
  /\ TheVideos[1].video[1].uri \notin {None, Some("")}

\* the entry read is tagged with a safety-filter reason
HasFilterReason ==
  /\ Len(TheVideos) >= 1
  /\ TheVideos[1].video # None
  /\ TheVideos[1].video[1].filterReason \notin {None, Some("")}

\* the response carries a top-level error message
HasErrorMessage ==
  /\ TheResponse # None
  /\ TheResponse[1].error # None
  /\ TheResponse[1].error[1].message \notin {None, Some("")}

\* the call was rejected by the resolution with the message e, and no fetch
\* was issued
FailedWith(e) ==
  /\ call.pc = "rejected"
  /\ call.error = e
  /\ NumberOf("fetch") = 0
  /\ call.downloadLink = None
  /\ events[Len(events)] # MessageEvent("Fetching generated video...")

\* C11: a completed operation whose generated-video entry is tagged with a
\* safety-filter reason and has no result locator is rejected with the
\* SafetyFiltered error carrying exactly that reason, and no fetch is issued.
C11_SafetyFiltered ==
  (OperationDone /\ HasFilterReason /\ ~HasLocator) =>
    FailedWith(<<"Video was filtered by safety policy: ",
                 TheVideos[1].video[1].filterReason[1],
                 ". Try a different prompt.">>)

C11_Witness ==
  /\ OperationDone /\ HasFilterReason /\ ~HasLocator /\ HasErrorMessage
  /\ TheVideos[1].video[1].uri = Some("")
  /\ polls = 1
  /\ call.pc = "rejected"

\* C12: a completed operation with no usable locator and no safety-filter
\* reason whose response carries a top-level error message is rejected with
\* 'Video generation failed: ' followed by that message, verbatim, and no
\* fetch is issued.
C12_UpstreamError ==
  (OperationDone /\ ~HasLocator /\ ~HasFilterReason /\ HasErrorMessage) =>
    FailedWith(<<"Video generation failed: ", TheResponse[1].error[1].message[1]>>)

C12_Witness ==
  /\ OperationDone /\ ~HasLocator /\ ~HasFilterReason /\ HasErrorMessage
  /\ TheResponse[1].generatedVideos = None
  /\ call.error = <<"Video generation failed: ", "Quota exceeded">>

\* the error of lines 104-106
EmptyResultError ==
  <<"Video generation completed, but no video was returned. The content may have been filtered by safety policies. Try a different prompt or image.">>

\* the error of line 108
MalformedResponseError ==
  <<"Video generation completed, but no download link was found. Check the browser console for details.">>

\* C13: a completed operation whose generated-video list is absent or empty
\* and whose response carries no top-level error message is rejected with the
\* EmptyResult error, not with MalformedResponse or UpstreamError, and no
\* fetch is issued.
C13_EmptyResult ==
  (OperationDone /\ Len(TheVideos) = 0 /\ ~HasErrorMessage) =>
    /\ FailedWith(EmptyResultError)
    /\ call.error # MalformedResponseError
    /\ call.error[1] # "Video generation failed: "

C13_Witness ==
  /\ OperationDone
  /\ TheResponse # None
  /\ TheResponse[1].generatedVideos = Some(<<>>)
  /\ TheResponse[1].error = Some([message |-> Some("")])
  /\ call.error = EmptyResultError

\* C16: a completed operation with a non-empty generated-video list in which
\* the locator is missing, with neither a safety-filter reason nor a
\* top-level error message, is rejected with the MalformedResponse error
\* ('no download link was found'), and no fetch is issued.
C16_MalformedResponse ==
  (OperationDone /\ Len(TheVideos) >= 1
     /\ ~HasLocator /\ ~HasFilterReason /\ ~HasErrorMessage) =>
    FailedWith(MalformedResponseError)

C16_Witness ==
  /\ OperationDone
  /\ Len(TheVideos) = 1
  /\ TheVideos[1].video = Some([uri |-> None, filterReason |-> None])
  /\ TheResponse[1].error = None
  /\ call.error = MalformedResponseError

\* the outcome of the call, read from what it did: a fetch was issued, or it
\* was rejected with one of the four generation failures
Outcome ==
  IF NumberOf("fetch") > 0 THEN "Success"
  ELSE IF call.pc # "rejected" THEN "None"
  ELSE IF call.error[1] = "Video was filtered by safety policy: " THEN "SafetyFiltered"
  ELSE IF call.error[1] = "Video generation failed: " THEN "UpstreamError"
  ELSE IF call.error = EmptyResultError THEN "EmptyResult"
  ELSE IF call.error = MalformedResponseError THEN "MalformedResponse"
  ELSE "Other"

\* the rules of the resolution that the completed operation satisfies
SatisfiedRules ==
  (IF HasLocator THEN {1} ELSE {})
    \cup (IF HasFilterReason THEN {2} ELSE {})
    \cup (IF HasErrorMessage THEN {3} ELSE {})
    \cup (IF Len(TheVideos) = 0 THEN {4} ELSE {})
    \cup {5}

LowestRule == CHOOSE r \in SatisfiedRules : \A q \in SatisfiedRules : r <= q

OutcomeOfRule ==
  <<"Success", "SafetyFiltered", "UpstreamError", "EmptyResult", "MalformedResponse">>

\* C14: the resolution is first-match-wins over (1) locator, (2) filter
\* reason, (3) top-level error message, (4) absent or empty list,
\* (5) malformed: the outcome is that of the lowest-numbered rule the
\* completed operation satisfies.  A locator wins over a filter reason and an
\* error message, a filter reason over an error message, and an error
\* message over an absent or empty list.
C14_FirstMatchWins ==
  OperationDone =>
    /\ Outcome = OutcomeOfRule[LowestRule]
    /\ (HasLocator /\ (HasFilterReason \/ HasErrorMessage)) =>
         /\ Outcome = "Success"
         /\ call.downloadLink = TheVideos[1].video[1].uri
    /\ (~HasLocator /\ HasFilterReason /\ HasErrorMessage) =>
         Outcome = "SafetyFiltered"
    /\ (HasErrorMessage /\ Len(TheVideos) = 0) => Outcome = "UpstreamError"

C14_Witness ==
  /\ OperationDone
  /\ SatisfiedRules = {2, 3, 5}
  /\ Outcome = "SafetyFiltered"
  /\ polls = 2

\* C17: a fetch is issued only after a successful classification and right
\* after the 'Fetching generated video...' message; when the fetch returns a
\* non-success status the call is rejected with the 'Failed to download
\* video' error, which is none of the four generation failures, and no
\* resource handle is created.
C17_DownloadFailure ==
  /\ \A i \in IndicesOf("fetch") :
       /\ OperationDone /\ HasLocator
       /\ events[i] = FetchEvent(TheVideos[1].video[1].uri[1])
       /\ i > 1 /\ events[i - 1] = MessageEvent("Fetching generated video...")
       /\ NumberOf("fetch") = 1
  /\ \A i \in IndicesOf("response") :
       /\ i > 1 /\ events[i - 1].type = "fetch"
       /\ events[i].arg # "200" =>
            /\ call.pc = "rejected"
            /\ call.error = <<"Failed to download video: ", events[i].arg>>
            /\ Outcome = "Success"
            /\ call.error[1] \notin
                 {"Video was filtered by safety policy: ", "Video generation failed: "}
            /\ call.error \notin {EmptyResultError, MalformedResponseError}
            /\ call.url = ""
            /\ i = Len(events)

C17_Witness ==
  /\ call.pc = "rejected"
  /\ call.error = <<"Failed to download video: ", "Forbidden">>
  /\ events[Len(events)] = ResponseEvent(FALSE, "Forbidden")
  /\ polls = 1

(***************************************************************************)
(* ResolveTwiceSpec: two calls of generateVideo that end with the same     *)
(* operation.  The first call, kept in the first task slot, gets its       *)
(* operation complete from generateVideos; the second, `call`, gets the    *)
(* same operation from generateVideos or from a status check after up to   *)
(* MaxResolvePolls incomplete answers.                                     *)
(***************************************************************************)
FirstCall == tasks[1].call

FirstCallStarts ==
  /\ FirstCall.pc = "idle"
  /\ \E images \in SeqsOf(LiveImageParts, 1, 1), p \in Prompts,
        ar \in LiveAspectRatios :
       tasks' = [tasks EXCEPT ![1].call = StartCall(images, p, ar).call]
  /\ UNCHANGED <<callVars, loadingMessage, appVars, formVars>>

FirstSubmitReturned ==
  /\ FirstCall.pc = "submitting"
  /\ \E op \in WideOperations :
       /\ op.done
       /\ tasks' = [tasks EXCEPT ![1].call = SubmitReturned(FirstCall, op).call]
  /\ UNCHANGED <<callVars, loadingMessage, appVars, formVars>>

\* the first call has classified its operation
FirstResolved == FirstCall.operation # None

SecondCallStarts ==
  /\ FirstResolved
  /\ ResCall

SecondSubmitReturned ==
  /\ call.pc = "submitting"
  /\ \E op \in {[done |-> FALSE, response |-> None], FirstCall.operation[1]} :
       Take(SubmitReturned(call, op))
  /\ UNCHANGED <<polls, thrown>>

SecondCheckReturned ==
  /\ call.pc = "checking"
  /\ \E op \in {[done |-> FALSE, response |-> None], FirstCall.operation[1]} :
       /\ ~op.done => polls < MaxResolvePolls
       /\ Take(CheckReturned(call, op))
  /\ UNCHANGED <<polls, thrown>>

ResolveTwiceNext ==
  \/ FirstCallStarts
  \/ FirstSubmitReturned
  \/ SecondCallStarts
  \/ SecondSubmitReturned
  \/ GenTimerFired
  \/ SecondCheckReturned
  \/ GenFetchReturned
  \/ GenDownloadThrew
  \/ GenBlobReturned

ResolveTwiceSpec == Init /\ [][ResolveTwiceNext]_vars

\* the classified outcome held by a call: the locator, or the error category
\* (with the reason or the message it carries)
OutcomeOfCall(c) ==
  IF c.downloadLink # None THEN <<"Success", c.downloadLink[1]>>
  ELSE IF c.error = <<>> THEN <<"None">>
  ELSE IF c.error[1] = "Video was filtered by safety policy: " THEN <<"SafetyFiltered", c.error[2]>>
  ELSE IF c.error[1] = "Video generation failed: " THEN <<"UpstreamError", c.error[2]>>
  ELSE IF c.error = EmptyResultError THEN <<"EmptyResult">>
  ELSE IF c.error = MalformedResponseError THEN <<"MalformedResponse">>
  ELSE <<"Other">>

\* what the call did with its completed operation, one flag per outcome
OutcomeFlags ==
  << NumberOf("fetch") = 1 /\ call.downloadLink # None,
     call.pc = "rejected" /\ call.error[1] = "Video was filtered by safety policy: ",
     call.pc = "rejected" /\ call.error[1] = "Video generation failed: ",
     call.pc = "rejected" /\ call.error = EmptyResultError,
     call.pc = "rejected" /\ call.error = MalformedResponseError >>

\* C15: the resolution is total and deterministic: a call that holds a
\* completed operation has produced exactly one of the five outcomes, and two
\* calls that end with the same operation have the same outcome (the same
\* locator, or the same error category), whatever the number of polls before
\* completion and the progress-message index of each.
C15_TotalDeterministic ==
  /\ OperationDone =>
       /\ Cardinality({k \in 1..5 : OutcomeFlags[k]}) = 1
       /\ (call.pc = "rejected" /\ NumberOf("fetch") = 0) =>
            (OutcomeFlags[2] \/ OutcomeFlags[3] \/ OutcomeFlags[4] \/ OutcomeFlags[5])
  /\ (OperationDone /\ FirstResolved /\ call.operation = FirstCall.operation) =>
       /\ OutcomeOfCall(call) = OutcomeOfCall(FirstCall)
       /\ OutcomeOfCall(call)[1] \in
            {"Success", "SafetyFiltered", "UpstreamError", "EmptyResult",
             "MalformedResponse"}

C15_Witness ==
  /\ OperationDone /\ FirstResolved
  /\ call.operation = FirstCall.operation
  /\ polls = 2 /\ call.messageIndex = 2
  /\ FirstCall.messageIndex = 0
  /\ OutcomeOfCall(call)[1] = "UpstreamError"

(***************************************************************************)
(* SpecApp: the form and the App around generateVideo.  The prompt and the *)
(* aspect ratio stay as the form sets them at first.                       *)
(*                                                                         *)
(* A handler runs to its first await in one step; what follows an await    *)
(* runs, in one step too, when the awaited promise settles.  The           *)
(* invocations of handleSubmit and handleGeneration in flight are the      *)
(* tasks: "reading" awaits Promise.all of the file reads (line 98 of the   *)
(* form), "generating" awaits generateVideo (line 90 of App).              *)
(***************************************************************************)
\* the files the user can pick, and the most picked at once
SmallPhoto ==
  [name |-> "beach.png", size |-> 1048576, type |-> "image/png", data |-> "AAAA"]
LargePhoto ==
  [name |-> "huge.jpg", size |-> 10485761, type |-> "image/jpeg", data |-> "BBBB"]
Files == {SmallPhoto, LargePhoto}
MaxBatch == 3

MaxImages == 3
MaxFileSize == 10 * 1024 * 1024

MaxImagesError == <<"You can upload a maximum of 3 images.">>
OversizeError(file) == <<"File \"", file.name, "\" exceeds 10MB limit.">>
SubmitValidationError == <<"Please provide at least one image and a prompt.">>
ProcessError(e) == <<"Failed to process images: ">> \o e
ReadErrors == {<<"Could not extract base64 data from file.">>}
Sentinel == "Requested entity was not found"
ApiKeyError == <<"API Key validation failed. Please select a valid API key.">>
GenerationError(e) == <<"An error occurred during video generation: ">> \o e

\* the operations the backend answers with in SpecApp: incomplete, complete
\* with a locator, complete with nothing, complete with the error message of
\* a rejected credential
AppOperations ==
  { [done |-> FALSE, response |-> None],
    [done |-> TRUE, response |->
       Some([generatedVideos |->
               Some(<<[video |-> Some([uri |-> Some("https://video.example/v1?alt=media"),
                                       filterReason |-> None])]>>),
             error |-> None])],
    [done |-> TRUE, response |-> Some([generatedVideos |-> Some(<<>>), error |-> None])],
    [done |-> TRUE, response |->
       Some([generatedVideos |-> None,
             error |-> Some([message |-> Some("Requested entity was not found.")])])] }

\* in SpecApp an operation is complete at its first status check
AppCheckOperations == {op \in AppOperations : op.done}

\* URL.createObjectURL(file): the preview of a file
PreviewOf(file) == <<"blob:preview", file.name>>

\* fileToGenerativePart (VideoGeneratorForm.tsx, 253-274), when the read succeeds
FileToGenerativePart(file) == [data |-> file.data, mimeType |-> file.type]

\* err.message.includes(s): the pieces of the messages of this model either
\* hold the sentinel whole or not at all
StartsWith(piece, s) ==
  /\ piece \in {"Requested entity was not found."}
  /\ s = "Requested entity was not found"
\* mutant of Includes: the message is compared whole
Includes_WholeMessage(message, s) == message = <<s>>

Includes(message, s) == \E i \in 1..Len(message) : message[i] = s \/ StartsWith(message[i], s)

\* App, line 167 and renderContent: the form is on the page
FormMounted == ~isGenerating /\ ~isCheckingApiKey /\ apiKeySelected

\* App, 219-223: the error banner is on the page
ErrorBannerShown == error # None /\ ~isGenerating /\ ~apiKeySelected

\* App, 167 and 135-137: the ApiKeySelector is on the page; it renders the
\* error it is given
SelectorShown == ~isGenerating /\ ~isCheckingApiKey /\ ~apiKeySelected

\* the stored error text is somewhere on the page
ErrorShown == error # None /\ (ErrorBannerShown \/ SelectorShown)

\* line 244: the submit button is enabled
SubmitEnabled == ~(isGenerating \/ Len(imageFiles) = 0 \/ isSuggesting)

\* mutant of TooManyImages: the limit off by one
TooManyImages_OffByOne(fileArray) == Len(imageFiles) + Len(fileArray) > MaxImages + 1

\* imageFiles.length + fileArray.length > 3
TooManyImages(fileArray) == Len(imageFiles) + Len(fileArray) > MaxImages

\* fileArray.find(file => file.size > 10 * 1024 * 1024)
OversizedIn(fileArray) == {i \in 1..Len(fileArray) : fileArray[i].size > MaxFileSize}
MinOf(S) == CHOOSE i \in S : \A j \in S : i <= j

\* a.filter((_, i) => i !== index), index 0-based
RemoveAt(a, index) ==
  [i \in 1..(Len(a) - 1) |-> IF i <= index THEN a[i] ELSE a[i + 1]]

\* the form after App's state has changed: a form that leaves the page loses
\* its state, and comes back with the initial one
FormAfter(mountedAfter, files, previews, pr, ar, err) ==
  IF mountedAfter
  THEN /\ imageFiles' = files
       /\ imagePreviews' = previews
       /\ prompt' = pr
       /\ aspectRatio' = ar
       /\ formError' = err
       /\ UNCHANGED <<suggestions, isSuggesting>>
  ELSE /\ imageFiles' = <<>>
       /\ imagePreviews' = <<>>
       /\ prompt' = DefaultPrompt
       /\ aspectRatio' = "16:9"
       /\ formError' = None
       /\ suggestions' = <<>>
       /\ isSuggesting' = FALSE

\* URL.createObjectURL: a URL that no live object URL has, and that does
\* not name a revoked object a share still refers to
CreateObjectURL(live) ==
  IF "blob:video-1" \notin live THEN "blob:video-1" ELSE "blob:video-2"

\* mutant of RevokedByCleanup: the effect has no cleanup
RevokedByCleanup_NoCleanup(old, new) == {}

\* App, 65-71: when videoUrl changes, the cleanup of the effect of the
\* previous render runs and revokes the previous URL, if there was one
RevokedByCleanup(old, new) == IF new # old /\ old # None THEN {old[1]} ELSE {}

\* checkApiKey (App, 47-58) has finished: window.aistudio answered hasKey,
\* or there is no window.aistudio (hasKey is then true)
CheckApiKeyDone ==
  /\ isCheckingApiKey
  /\ \E hasKey \in BOOLEAN :
       /\ apiKeySelected' = hasKey
       /\ isCheckingApiKey' = FALSE
  /\ UNCHANGED <<callVars, loadingMessage, videoUrl, isGenerating, error,
                 shareUrl, shareError, objectUrls, isSharing, share, selector,
                 server, formVars, tasks>>

\* handleApiKeySelected (App, 74-76), from the ApiKeySelector
HandleApiKeySelected ==
  /\ ~isGenerating /\ ~isCheckingApiKey /\ ~apiKeySelected
  /\ apiKeySelected' = TRUE
  /\ UNCHANGED <<callVars, loadingMessage, isCheckingApiKey, videoUrl,
                 isGenerating, error, shareUrl, shareError, objectUrls,
                 isSharing, share, selector, server, formVars, tasks>>

\* mutant of FileChange: the files in front of an oversized one are added
FileChange_PartialAdd(fileArray) ==
  IF TooManyImages(fileArray)
  THEN /\ formError' = Some(MaxImagesError)
       /\ UNCHANGED <<imageFiles, imagePreviews, suggestions>>
  ELSE IF OversizedIn(fileArray) # {}
  THEN /\ formError' = Some(OversizeError(fileArray[MinOf(OversizedIn(fileArray))]))
       /\ imageFiles' =
            imageFiles \o SubSeq(fileArray, 1, MinOf(OversizedIn(fileArray)) - 1)
       /\ imagePreviews' =
            imagePreviews \o [i \in 1..(MinOf(OversizedIn(fileArray)) - 1) |->
                               PreviewOf(fileArray[i])]
       /\ UNCHANGED suggestions
  ELSE /\ formError' = None
       /\ imageFiles' = imageFiles \o fileArray
       /\ imagePreviews' =
            imagePreviews \o [i \in 1..Len(fileArray) |-> PreviewOf(fileArray[i])]
       /\ suggestions' = <<>>

\* handleFileChange (form, 26-56) for the files picked
FileChange(fileArray) ==
  IF TooManyImages(fileArray)
  THEN /\ formError' = Some(MaxImagesError)
       /\ UNCHANGED <<imageFiles, imagePreviews, suggestions>>
  ELSE IF OversizedIn(fileArray) # {}
  THEN /\ formError' = Some(OversizeError(fileArray[MinOf(OversizedIn(fileArray))]))
       /\ UNCHANGED <<imageFiles, imagePreviews, suggestions>>
  ELSE /\ formError' = None
       /\ imageFiles' = imageFiles \o fileArray
       /\ imagePreviews' =
            imagePreviews \o [i \in 1..Len(fileArray) |-> PreviewOf(fileArray[i])]
       /\ suggestions' = <<>>

\* the file input is on the page while fewer than 3 images are selected
\* (form, 145); picking no file changes nothing (line 28)
HandleFileChange ==
  /\ FormMounted
  /\ Len(imageFiles) < 3
  /\ \E fileArray \in SeqsOf(Files, 1, MaxBatch) : FileChange(fileArray)
  /\ UNCHANGED <<callVars, loadingMessage, appVars, prompt, aspectRatio,
                 isSuggesting, tasks>>

\* handleRemoveImage (form, 58-68)
HandleRemoveImage ==
  /\ FormMounted
  /\ \E index \in 0..(Len(imagePreviews) - 1) :
       /\ imageFiles' = RemoveAt(imageFiles, index)
       /\ imagePreviews' = RemoveAt(imagePreviews, index)
  /\ suggestions' = <<>>
  /\ UNCHANGED <<callVars, loadingMessage, appVars, prompt, aspectRatio,
                 formError, isSuggesting, tasks>>

FreeSlots == {t \in Tasks : tasks[t].stage = "free"}

\* handleSubmit (form, 89-105) up to the await of line 98.  The submit event
\* comes from the button, when enabled; with no image the button is disabled
\* and the event can only be sent to the form itself.
HandleSubmit ==
  /\ FormMounted
  /\ SubmitEnabled \/ Len(imageFiles) = 0
  /\ IF Len(imageFiles) = 0 \/ prompt = ""
     THEN /\ formError' = Some(SubmitValidationError)
          /\ UNCHANGED tasks
     ELSE /\ FreeSlots # {}
          /\ formError' = None
          /\ tasks' = [tasks EXCEPT ![MinOf(FreeSlots)] =
                         [stage |-> "reading", formAlive |-> TRUE,
                          files |-> imageFiles, prompt |-> prompt,
                          aspectRatio |-> aspectRatio, call |-> IdleCall]]
  /\ UNCHANGED <<callVars, loadingMessage, appVars, imageFiles, imagePreviews,
                 prompt, aspectRatio, suggestions, isSuggesting>>

\* a form that has left the page no longer takes the setError of its tasks
Orphaned(ts) == [t \in Tasks |-> [ts[t] EXCEPT !.formAlive = FALSE]]

\* handleSubmit, lines 102-104: a file read failed
ReadFailed(t) ==
  /\ tasks[t].stage = "reading"
  /\ \E e \in ReadErrors :
       formError' = IF tasks[t].formAlive THEN Some(ProcessError(e)) ELSE formError
  /\ tasks' = [tasks EXCEPT ![t] = FreeTask]
  /\ UNCHANGED <<callVars, loadingMessage, appVars, imageFiles, imagePreviews,
                 prompt, aspectRatio, suggestions, isSuggesting>>

\* handleSubmit, line 101: the reads are done and onGenerate is called, which
\* is handleGeneration (App, 87-90): handleGenerationStart (78-85), then
\* generateVideo up to its first await
ReadDone(t) ==
  /\ tasks[t].stage = "reading"
  /\ LET images == [i \in 1..Len(tasks[t].files) |->
                      FileToGenerativePart(tasks[t].files[i])]
         r == StartCall(images, tasks[t].prompt, tasks[t].aspectRatio)
     IN tasks' = [Orphaned(tasks) EXCEPT ![t] =
                    [tasks[t] EXCEPT !.stage = "generating", !.formAlive = FALSE,
                                     !.call = r.call]]
  /\ isGenerating' = TRUE
  /\ videoUrl' = None
  /\ objectUrls' = objectUrls \ RevokedByCleanup(videoUrl, None)
  /\ error' = None
  /\ shareUrl' = None
  /\ shareError' = None
  /\ FormAfter(FALSE, imageFiles, imagePreviews, prompt, aspectRatio, formError)
  /\ UNCHANGED <<callVars, loadingMessage, apiKeySelected, isCheckingApiKey,
                 isSharing, share, selector, server>>

\* mutant of GenerationSettled: isGenerating is reset on success only
GenerationSettled_NoFinally(t, c) ==
  /\ tasks' = [(IF c.pc = "rejected" /\ Includes(c.error, Sentinel)
                THEN Orphaned(tasks) ELSE tasks) EXCEPT ![t] = FreeTask]
  /\ isGenerating' = (c.pc # "resolved")
  /\ IF c.pc = "resolved"
     THEN /\ videoUrl' = Some(c.url)
          /\ objectUrls' =
               (objectUrls \cup {c.url}) \ RevokedByCleanup(videoUrl, Some(c.url))
          /\ UNCHANGED <<error, apiKeySelected>>
     ELSE IF Includes(c.error, Sentinel)
     THEN /\ error' = Some(ApiKeyError)
          /\ apiKeySelected' = FALSE
          /\ UNCHANGED <<videoUrl, objectUrls>>
     ELSE /\ error' = Some(GenerationError(c.error))
          /\ UNCHANGED <<videoUrl, objectUrls, apiKeySelected>>
  /\ UNCHANGED <<isCheckingApiKey, shareUrl, shareError, isSharing, share,
                 selector, server>>

\* handleGeneration, lines 91-103: what follows the await of generateVideo
\* once the call c has settled
GenerationSettled(t, c) ==
  /\ tasks' = [(IF c.pc = "rejected" /\ Includes(c.error, Sentinel)
                THEN Orphaned(tasks) ELSE tasks) EXCEPT ![t] = FreeTask]
  /\ isGenerating' = FALSE
  /\ IF c.pc = "resolved"
     THEN /\ videoUrl' = Some(c.url)
          /\ objectUrls' =
               (objectUrls \cup {c.url}) \ RevokedByCleanup(videoUrl, Some(c.url))
          /\ UNCHANGED <<error, apiKeySelected>>
     ELSE IF Includes(c.error, Sentinel)
     THEN /\ error' = Some(ApiKeyError)
          /\ apiKeySelected' = FALSE
          /\ UNCHANGED <<videoUrl, objectUrls>>
     ELSE /\ error' = Some(GenerationError(c.error))
          /\ UNCHANGED <<videoUrl, objectUrls, apiKeySelected>>
  /\ UNCHANGED <<isCheckingApiKey, shareUrl, shareError, isSharing, share,
                 selector, server>>

\* a step r of the generateVideo call of task t
TaskTake(t, r) ==
  /\ loadingMessage' = LastMessage(r.events, loadingMessage)
  /\ IF Settled(r.call)
     THEN /\ GenerationSettled(t, r.call)
          /\ FormAfter(FormMounted /\ ~(r.call.pc = "rejected" /\ Includes(r.call.error, Sentinel)),
                       imageFiles, imagePreviews, prompt, aspectRatio, formError)
     ELSE /\ tasks' = [tasks EXCEPT ![t].call = r.call]
          /\ UNCHANGED <<appVars, formVars>>
  /\ UNCHANGED callVars

Generating(t) == tasks[t].stage = "generating"

TaskSubmitReturned(t) ==
  /\ Generating(t) /\ tasks[t].call.pc = "submitting"
  /\ \E op \in AppOperations : TaskTake(t, SubmitReturned(tasks[t].call, op))

TaskSubmitThrew(t) ==
  /\ Generating(t) /\ tasks[t].call.pc = "submitting"
  /\ \E e \in ThrownMessages : TaskTake(t, SubmitThrew(tasks[t].call, e))

TaskTimerFired(t) ==
  /\ Generating(t) /\ tasks[t].call.pc = "waiting"
  /\ TaskTake(t, TimerFired(tasks[t].call))

TaskCheckReturned(t) ==
  /\ Generating(t) /\ tasks[t].call.pc = "checking"
  /\ \E op \in AppCheckOperations : TaskTake(t, CheckReturned(tasks[t].call, op))

TaskCheckThrew(t) ==
  /\ Generating(t) /\ tasks[t].call.pc = "checking"
  /\ \E e \in ThrownMessages : TaskTake(t, CheckThrew(tasks[t].call, e))

TaskFetchReturned(t) ==
  /\ Generating(t) /\ tasks[t].call.pc = "fetching"
  /\ \E ok \in BOOLEAN, st \in StatusTexts :
       TaskTake(t, FetchReturned(tasks[t].call, ok, st))

TaskDownloadThrew(t) ==
  /\ Generating(t) /\ tasks[t].call.pc \in {"fetching", "blob"}
  /\ \E e \in ThrownMessages : TaskTake(t, DownloadThrew(tasks[t].call, e))

TaskBlobReturned(t) ==
  /\ Generating(t) /\ tasks[t].call.pc = "blob"
  /\ TaskTake(t, BlobReturned(tasks[t].call,
                              CreateObjectURL(objectUrls \cup {share.videoUrl})))

AppNext ==
  \/ CheckApiKeyDone
  \/ HandleApiKeySelected
  \/ HandleFileChange
  \/ HandleRemoveImage
  \/ HandleSubmit
  \/ \E t \in Tasks : ReadFailed(t)
  \/ \E t \in Tasks : ReadDone(t)
  \/ \E t \in Tasks : TaskSubmitReturned(t)
  \/ \E t \in Tasks : TaskSubmitThrew(t)
  \/ \E t \in Tasks : TaskTimerFired(t)
  \/ \E t \in Tasks : TaskCheckReturned(t)
  \/ \E t \in Tasks : TaskCheckThrew(t)
  \/ \E t \in Tasks : TaskFetchReturned(t)
  \/ \E t \in Tasks : TaskDownloadThrew(t)
  \/ \E t \in Tasks : TaskBlobReturned(t)

SpecApp == Init /\ [][AppNext]_vars

AppTypeOK ==
  /\ isGenerating \in BOOLEAN
  /\ Len(imageFiles) = Len(imagePreviews)
  /\ ~FormMounted => (imageFiles = <<>> /\ formError = None)

(***************************************************************************)
(* Properties of the form and the App, checked under SpecApp.              *)
(***************************************************************************)
InFlight == {t \in Tasks : Generating(t)}

\* the images selected, read and submitted are within the limits
C2_Counts ==
  /\ Len(imageFiles) \in 0..3
  /\ \A t \in Tasks :
       /\ tasks[t].stage = "reading" => Len(tasks[t].files) \in 1..3
       /\ tasks[t].stage = "generating" =>
            /\ Len(tasks[t].call.images) \in 1..3
            /\ Len(tasks[t].call.images) = Len(tasks[t].files)

\* handleSubmit with no image sets the validation message and starts nothing
C2_EmptySubmitRejected ==
  [][(Len(imageFiles) = 0 /\ HandleSubmit) =>
       /\ formError' = Some(<<"Please provide at least one image and a prompt.">>)
       /\ tasks' = tasks
       /\ isGenerating' = isGenerating]_vars

\* handleFileChange with files that would bring the total above 3 adds none
C2_ExcessRejected ==
  [][\A fileArray \in SeqsOf(Files, 1, MaxBatch) :
       (FormMounted /\ Len(imageFiles) + Len(fileArray) > 3 /\ FileChange(fileArray)) =>
         /\ imageFiles' = imageFiles
         /\ formError' = Some(<<"You can upload a maximum of 3 images.">>)]_vars

\* C2: the number of selected images stays within 0..3 and onGenerate, hence
\* generateVideo, only ever gets 1 to 3 images; a submit with no image is
\* rejected with the validation message and an addition that would bring the
\* total above 3 is rejected.
C2_ImageCount == []C2_Counts /\ C2_EmptySubmitRejected /\ C2_ExcessRejected

C2_Witness ==
  /\ formError = Some(MaxImagesError)
  /\ Len(imageFiles) = 2
  /\ \E t \in Tasks : tasks[t].stage = "reading" /\ Len(tasks[t].files) = 3

\* C3: no two generation operations are in flight at the same time: a call
\* of generateVideo starts only when the previous one has settled.
C3_OneGenerationInFlight == Cardinality(InFlight) <= 1

\* the handle on display, if any
Displayed == IF videoUrl = None THEN {} ELSE {videoUrl[1]}

\* every unreleased handle is the one on display, so there is at most one
C18_OnlyDisplayedIsLive ==
  /\ objectUrls \subseteq Displayed
  /\ Cardinality(objectUrls) <= 1

\* when videoUrl changes, to a new handle or to null, the previous handle is
\* released
C18_PreviousRevoked ==
  [][(videoUrl # None /\ videoUrl' # videoUrl) =>
       /\ videoUrl[1] \notin objectUrls'
       /\ objectUrls' \subseteq (IF videoUrl' = None THEN {} ELSE {videoUrl'[1]})]_vars

\* C18: after any sequence of generations, every video handle that is not
\* the displayed videoUrl has been released: when videoUrl changes to a new
\* handle or to null the previous handle is revoked, and at most one
\* unreleased video handle exists.
C18_HandlesReleased == []C18_OnlyDisplayedIsLive /\ C18_PreviousRevoked

C18_Witness ==
  /\ videoUrl = Some("blob:video-2")
  /\ objectUrls = {"blob:video-2"}
  /\ ~isGenerating

\* the failure is caught: an error text is stored and the generation is over
C19_ErrorStored == error # None /\ ~isGenerating

\* C19: every error of generateVideo is caught by handleGeneration and
\* rendered: after a failed generation, once isGenerating is false, the page
\* shows the stored error text.
C19_ErrorRendered ==
  [][\A t \in Tasks :
       (Generating(t) /\ ~Generating(t)' /\ videoUrl' = videoUrl) =>
         /\ C19_ErrorStored'
         /\ ErrorShown']_vars

\* the steps with which the call c may be rejected
RejectionsOf(c) ==
  {r \in {SubmitThrew(c, e) : e \in ThrownMessages}
           \cup {CheckThrew(c, e) : e \in ThrownMessages}
           \cup {DownloadThrew(c, e) : e \in ThrownMessages}
           \cup {SubmitReturned(c, op) : op \in AppOperations}
           \cup {CheckReturned(c, op) : op \in AppOperations}
           \cup {FetchReturned(c, FALSE, st) : st \in StatusTexts} :
     r.call.pc = "rejected"}

\* the message holds 'Requested entity was not found'
HasSentinel(message) ==
  \E i \in 1..Len(message) :
    message[i] \in {"Requested entity was not found",
                    "Requested entity was not found."}

\* C20: when a generation fails with a message that contains 'Requested
\* entity was not found', App sets apiKeySelected to false and the credential
\* selector is shown again; a failure with any other message leaves
\* apiKeySelected as it was.
C20_SentinelForcesReselection ==
  [][\A t \in Tasks :
       (Generating(t) /\ ~Generating(t)') =>
         \A r \in RejectionsOf(tasks[t].call) :
           TaskTake(t, r) =>
             /\ HasSentinel(r.call.error) =>
                  /\ apiKeySelected' = FALSE
                  /\ ~isGenerating' /\ ~isCheckingApiKey'
                  /\ error' = Some(<<"API Key validation failed. Please select a valid API key.">>)
             /\ ~HasSentinel(r.call.error) => apiKeySelected' = apiKeySelected]_vars

C20_Witness ==
  /\ error = Some(ApiKeyError)
  /\ ~apiKeySelected /\ ~isGenerating
  /\ loadingMessage = LOADING_MESSAGES[2]
  /\ \E t \in Tasks : Generating(t)

(***************************************************************************)
(* SpecVerify: the verify-password handler, run on one request under two   *)
(* configurations of the server.                                           *)
(***************************************************************************)
InitVerify ==
  /\ call = IdleCall /\ events = <<>> /\ polls = 0 /\ thrown = None
  /\ loadingMessage = ""
  /\ InitApp
  /\ InitForm
  /\ tasks = [t \in Tasks |-> FreeTask]

ServerConfigured ==
  /\ server = IdleServer
  /\ \E env \in Envs, env2 \in Envs :
       server' = [server EXCEPT !.env = env, !.env2 = env2]
  /\ UNCHANGED <<callVars, loadingMessage, apiKeySelected, isCheckingApiKey,
                 videoUrl, isGenerating, error, shareUrl, shareError, objectUrls,
                 isSharing, share, selector, formVars, tasks>>

HandlerRuns ==
  /\ server.req = None
  /\ \E req \in Requests :
       server' = [server EXCEPT !.req = Some(req),
                                !.res = Some(handler(req, server.env)),
                                !.res2 = Some(handler(req, server.env2))]
  /\ UNCHANGED <<callVars, loadingMessage, apiKeySelected, isCheckingApiKey,
                 videoUrl, isGenerating, error, shareUrl, shareError, objectUrls,
                 isSharing, share, selector, formVars, tasks>>

VerifyNext ==
  \/ ServerConfigured
  \/ HandlerRuns

SpecVerify == InitVerify /\ [][VerifyNext]_vars

\* the password a request carries: the field of its body, and nothing when
\* the request has no body
PasswordOf(req) == IF req.body = None THEN Undefined ELSE req.body[1].password
PasswordUsable(req) ==
  PasswordOf(req).type = "string" /\ PasswordOf(req).value # <<>>
PasswordMatches(req, env) ==
  /\ req.method = "POST"
  /\ PasswordOf(req).type = "string"
  /\ env.ACCESS_PASSWORD = Some(PasswordOf(req).value)
\* the number of the first rule of the list that applies to a request
RuleOf(req, env) ==
  IF req.method # "POST" THEN 405
  ELSE IF ~PasswordUsable(req) THEN 400
  ELSE IF ~IsSet(env.ACCESS_PASSWORD) \/ ~IsSet(env.GEMINI_API_KEY) THEN 500
  ELSE IF ~PasswordMatches(req, env) THEN 401
  ELSE 200
Answered == server.req # None
TheRequest == server.req[1]
TheAnswer == server.res[1]
TheAnswer2 == server.res2[1]

\* C21: every request gets the response of the first rule that applies to
\* it, in the order 405 (not a POST), 400 (password missing, empty or not a
\* string), 500 (not configured), 401 (password differs), 200 with the key.
C21_FirstApplicableRule ==
  Answered =>
    /\ TheAnswer.kind = "json"
    /\ TheAnswer.status = RuleOf(TheRequest, server.env)
    /\ (TheAnswer.status = 200) = (TheAnswer.apiKey # None)
    /\ TheAnswer.status = 200 => TheAnswer.apiKey = server.env.GEMINI_API_KEY

\* the classification holds for every request that has a body
C21_WithBody ==
  Answered /\ TheRequest.body # None =>
    /\ TheAnswer.kind = "json"
    /\ TheAnswer.status = RuleOf(TheRequest, server.env)
    /\ (TheAnswer.status = 200) = (TheAnswer.apiKey # None)
    /\ TheAnswer.status = 200 => TheAnswer.apiKey = server.env.GEMINI_API_KEY

\* two configurations that differ only in a non-empty GEMINI_API_KEY
DifferOnlyInKey(env, env2) ==
  /\ env.ACCESS_PASSWORD = env2.ACCESS_PASSWORD
  /\ env.GEMINI_API_KEY # env2.GEMINI_API_KEY
  /\ IsSet(env.GEMINI_API_KEY)
  /\ IsSet(env2.GEMINI_API_KEY)

\* C22: the response holds the key only if the request is a POST whose
\* password string equals ACCESS_PASSWORD, and under two configurations
\* that differ only in a non-empty GEMINI_API_KEY every request whose
\* password does not match gets the same response.
C22_KeyOnlyOnMatch ==
  Answered =>
    /\ TheAnswer.apiKey # None => PasswordMatches(TheRequest, server.env)
    /\ (DifferOnlyInKey(server.env, server.env2)
        /\ ~PasswordMatches(TheRequest, server.env))
         => TheAnswer = TheAnswer2

\* a wrong password was rejected under two configurations with different keys
C22_Witness ==
  /\ Answered
  /\ DifferOnlyInKey(server.env, server.env2)
  /\ TheRequest.method = "POST"
  /\ PasswordUsable(TheRequest)
  /\ ~PasswordMatches(TheRequest, server.env)
  /\ TheAnswer.status = 401
  /\ TheAnswer2.status = 401

\* C25: in multi-image mode the referenceImages list has the length of the
\* input list, its i-th entry carries the data and the media type of the
\* i-th input image, and every entry has the reference type ASSET.
C25_ReferenceAssets ==
  (InCall /\ Len(call.images) > 1) =>
    /\ call.request[1].config.referenceImages # None
    /\ LET refs == call.request[1].config.referenceImages[1]
       IN /\ Len(refs) = Len(call.images)
          /\ \A i \in 1..Len(call.images) :
               /\ refs[i].image.imageBytes = call.images[i].data
               /\ refs[i].image.mimeType = call.images[i].mimeType
               /\ refs[i].referenceType = "ASSET"

\* a request was built from three images that are not all the same
C25_Witness ==
  /\ call.pc = "submitting"
  /\ Len(call.images) = 3
  /\ call.images[1] # call.images[3]
  /\ Len(call.request[1].config.referenceImages[1]) = 3

(***************************************************************************)
(* SpecDrive: one shareVideoToDrive call against every answer of the       *)
(* token client and of the Drive API.                                      *)
(***************************************************************************)
DriveStepTo(s) ==
  /\ share' = s
  /\ UNCHANGED <<callVars, loadingMessage, apiKeySelected, isCheckingApiKey,
                 videoUrl, isGenerating, error, shareUrl, shareError, objectUrls,
                 isSharing, selector, server, formVars, tasks>>

DriveCall ==
  /\ share.pc = "idle"
  /\ \E url \in ObjectUrls, clientIdSet \in BOOLEAN, apiKeySet \in BOOLEAN :
       DriveStepTo(ShareVideoToDrive(url, clientIdSet, apiKeySet))
DriveTokenNotLoaded ==
  /\ share.pc = "token"
  /\ DriveStepTo(TokenNotLoaded(share))
DriveTokenThrew ==
  /\ share.pc = "token"
  /\ \E e \in TokenThrows : DriveStepTo(TokenThrew(share, e))
DriveTokenCallback ==
  /\ share.pc = "token"
  /\ \E r \in TokenResponses : DriveStepTo(TokenCallback(share, r))
DriveBlobRead ==
  /\ share.pc = "blob"
  /\ DriveStepTo(BlobRead(share))
DriveBlobThrew ==
  /\ share.pc = "blob"
  /\ \E e \in FetchThrows : DriveStepTo(BlobThrew(share, e))
DriveUploadResponded ==
  /\ share.pc = "upload"
  /\ \E r \in DriveResponses : DriveStepTo(UploadResponded(share, r))
DriveUploadThrew ==
  /\ share.pc = "upload"
  /\ \E e \in FetchThrows : DriveStepTo(UploadThrew(share, e))
DrivePermissionResponded ==
  /\ share.pc = "permission"
  /\ \E r \in DriveResponses : DriveStepTo(PermissionResponded(share, r))
DrivePermissionThrew ==
  /\ share.pc = "permission"
  /\ \E e \in FetchThrows : DriveStepTo(PermissionThrew(share, e))
DriveFileMetaResponded ==
  /\ share.pc = "metadata"
  /\ \E r \in DriveResponses : DriveStepTo(FileMetaResponded(share, r))
DriveFileMetaThrew ==
  /\ share.pc = "metadata"
  /\ \E e \in FetchThrows : DriveStepTo(FileMetaThrew(share, e))
DriveNext ==
  \/ DriveCall
  \/ DriveTokenNotLoaded
  \/ DriveTokenThrew
  \/ DriveTokenCallback
  \/ DriveBlobRead
  \/ DriveBlobThrew
  \/ DriveUploadResponded
  \/ DriveUploadThrew
  \/ DrivePermissionResponded
  \/ DrivePermissionThrew
  \/ DriveFileMetaResponded
  \/ DriveFileMetaThrew

SpecDrive == InitVerify /\ [][DriveNext]_vars

\* the steps of a share in the order of the source, for a video and a file
StepsOf(url, fileId) ==
  <<TokenEvent, BlobEvent(url), UploadEvent, PermissionEvent(fileId),
    FileMetaEvent(fileId)>>
IsPrefix(a, b) == Len(a) <= Len(b) /\ \A i \in 1..Len(a) : a[i] = b[i]
\* the texts with which the code names a step
TextsNaming(step) ==
  IF step = "token"
  THEN {NotLoadedError, UnknownAuthError, TokenClientError, "User denied"}
  ELSE IF step = "upload" THEN {UploadPrefix, NoFileIdError}
  ELSE IF step = "permission" THEN {PermissionPrefix}
  ELSE IF step = "metadata" THEN {FileMetaError, NoLinkError}
  ELSE {}
ClaimedSteps == {"token", "upload", "permission", "metadata"}

\* the steps are asked in the order token, video data, upload, permission
\* (anyone, writer), metadata; a failed step is the last one asked; the link
\* is returned only after all of them
C23_OrderAndAbort ==
  /\ \E f \in FileIds \cup {""} : IsPrefix(share.events, StepsOf(share.videoUrl, f))
  /\ \A i \in 1..Len(share.events) :
       share.events[i].type = "permission" =>
         share.events[i].role = "writer" /\ share.events[i].to = "anyone"
  /\ (share.pc = "rejected" /\ share.failedAt # "configuration") =>
       /\ share.events # <<>>
       /\ share.events[Len(share.events)].type =
            (IF share.failedAt = "blob" THEN "blob" ELSE share.failedAt)
       /\ share.link = ""
  /\ share.pc = "resolved" =>
       /\ Len(share.events) = 5
       /\ share.link \in WebViewLinks
  /\ ShareSettled(share) =>
       ~(ENABLED DriveTokenCallback \/ ENABLED DriveBlobRead
         \/ ENABLED DriveUploadResponded \/ ENABLED DrivePermissionResponded
         \/ ENABLED DriveFileMetaResponded)

\* C23: the steps run in the order token, upload, permission (anyone,
\* writer), metadata, each after the success of the one before; when a step
\* fails no later step starts and the call rejects with 'Sharing failed: ...'
\* whose message names the step that failed; the link is returned only when
\* all steps succeeded.
C23_WrappedNamesStep ==
  /\ C23_OrderAndAbort
  /\ (share.pc = "rejected" /\ share.failedAt \in ClaimedSteps) =>
       /\ Len(share.error) >= 2
       /\ share.error[1] = SharingPrefix
       /\ share.error[2] \in TextsNaming(share.failedAt)

\* a request that did not get through: the upload, or the permission
C23_UploadUnreachable ==
  ~(/\ share.pc = "rejected" /\ share.failedAt = "upload"
    /\ share.error = <<SharingPrefix, FailedToFetch>>)
C23_PermissionUnreachable ==
  ~(/\ share.pc = "rejected" /\ share.failedAt = "permission"
    /\ share.error = <<SharingPrefix, FailedToFetch>>)

(***************************************************************************)
(* SpecSelector: the ApiKeySelector and the verification endpoint.         *)
(***************************************************************************)
SelStepTo(s) ==
  /\ selector' = s
  /\ UNCHANGED <<callVars, loadingMessage, apiKeySelected, isCheckingApiKey,
                 videoUrl, isGenerating, error, shareUrl, shareError, objectUrls,
                 isSharing, share, server, formVars, tasks>>

SelServerConfigured ==
  /\ server = IdleServer
  /\ selector = InitSelector
  /\ \E env \in SelectorEnvs \ {NoEnv} :
       server' = [server EXCEPT !.env = env, !.env2 = env]
  /\ UNCHANGED <<callVars, loadingMessage, apiKeySelected, isCheckingApiKey,
                 videoUrl, isGenerating, error, shareUrl, shareError, objectUrls,
                 isSharing, share, selector, formVars, tasks>>
SelSetMode ==
  \E m \in {"choose", "apikey", "password"} :
    /\ (selector.mode = "choose") # (m = "choose")
    /\ SelStepTo(SetMode(selector, m))
SelSetApiKeyInput ==
  /\ selector.mode = "apikey"
  /\ \E text \in InputTexts : SelStepTo(SetApiKeyInput(selector, text))
SelSetPasswordInput ==
  /\ selector.mode = "password"
  /\ \E text \in InputTexts : SelStepTo(SetPasswordInput(selector, text))
SelApiKeySubmit ==
  /\ selector.mode = "apikey"
  /\ SelStepTo(HandleApiKeySubmit(selector))
\* the submit button is disabled while loading, line 157
SelPasswordSubmit ==
  /\ selector.mode = "password"
  /\ ~selector.loading
  /\ SelStepTo(HandlePasswordSubmit(selector))
SelPasswordResponded ==
  /\ selector.pending # None
  /\ SelStepTo(PasswordResponded(selector,
                 handler(VerifyRequest(selector.pending[1]), server.env)))
SelPasswordFetchFailed ==
  /\ selector.pending # None
  /\ SelStepTo(PasswordFetchFailed(selector))

SelectorNext ==
  \/ SelServerConfigured
  \/ SelSetMode
  \/ SelSetApiKeyInput
  \/ SelSetPasswordInput
  \/ SelApiKeySubmit
  \/ SelPasswordSubmit
  \/ SelPasswordResponded
  \/ SelPasswordFetchFailed

SpecSelector == InitVerify /\ [][SelectorNext]_vars

IsBlank(text) == \A i \in 1..Len(text) : text[i] = " "
NoOuterSpace(text) ==
  text # <<>> /\ text[1] # " " /\ text[Len(text)] # " "
\* text without the spaces at its two ends is inner
IsTrimOf(inner, text) ==
  /\ NoOuterSpace(inner)
  /\ \E a \in 0..Len(text), b \in 0..Len(text) :
       /\ a + Len(inner) + b = Len(text)
       /\ \A i \in 1..a : text[i] = " "
       /\ \A i \in 1..b : text[Len(text) + 1 - i] = " "
       /\ \A i \in 1..Len(inner) : text[a + i] = inner[i]

\* C24: a key or password that is empty after trimming is a validation
\* error: the local error is set, onApiKeyReady is not called and no request
\* is sent; onApiKeyReady is called only with a non-empty trimmed key, or
\* with the key of a verification response with a success status.
C24_Validation ==
  /\ (selector.did = "apikey" /\ IsBlank(selector.input)) =>
       /\ selector.localError = Some(EnterKeyError)
       /\ selector.ready = None
       /\ selector.sent = None
  /\ (selector.did = "password" /\ IsBlank(selector.input)) =>
       /\ selector.localError = Some(EnterPasswordError)
       /\ selector.ready = None
       /\ selector.sent = None
       /\ selector.pending = None
  /\ selector.sent # None =>
       /\ selector.did = "password"
       /\ IsTrimOf(selector.sent[1], selector.input)
  /\ selector.ready # None =>
       \/ /\ selector.did = "apikey"
          /\ IsTrimOf(selector.ready[1], selector.input)
       \/ /\ selector.did = "response"
          /\ selector.answer # None
          /\ selector.answer[1].status = 200
          /\ selector.ready = selector.answer[1].apiKey
          /\ selector.ready = server.env.GEMINI_API_KEY

\* a blank key and a blank password were refused, a key with spaces around
\* it was passed on trimmed, and a verified password gave the hosted key
C24_Witness ==
  /\ selector.did = "password" /\ selector.input = <<" ">>
  /\ selector.localError = Some(EnterPasswordError)
  /\ selector.sent = None
C24_WitnessBlankKey ==
  /\ selector.did = "apikey" /\ selector.input = <<" ">>
  /\ selector.localError = Some(EnterKeyError)
C24_WitnessTrimmedKey ==
  /\ selector.did = "apikey" /\ selector.input = <<"p", " ">>
  /\ selector.ready = Some(<<"p">>)
C24_WitnessVerified ==
  /\ selector.did = "response"
  /\ selector.ready = Some(<<"k", "1">>)
C24_WitnessRefused ==
  /\ selector.did = "response"
  /\ selector.answer # None
  /\ selector.answer[1].status = 401
  /\ selector.localError = Some("Invalid password")

(***************************************************************************)
(* SpecShare: App with its share button.  The user picks one photo at a    *)
(* time and does not submit while a generation is in flight.               *)
(***************************************************************************)
\* App, 170 and 184: the share button is on the page and enabled
ShareButtonEnabled == videoUrl # None /\ ~isGenerating /\ ~isSharing

\* the build has a client id and an API key, or lacks one of them
DriveConfigs == {<<TRUE, TRUE>>, <<FALSE, TRUE>>, <<TRUE, FALSE>>}
ShareTokenResponses ==
  {r \in TokenResponses : r.access_token = "ya29.a" /\ r.error_description = None}
ShareDriveResponses ==
  {r \in DriveResponses :
     /\ r.body # None
     /\ IF r.ok
        THEN r.body[1] = [id |-> Some("file-1"), error |-> None,
                          webViewLink |-> Some("https://drive.google.com/file/d/file-1/view")]
        ELSE r.body[1] = [id |-> None, error |-> Some("Quota exceeded"),
                          webViewLink |-> None]}

\* mutant of HandleShareSettled: isSharing is reset on success only
HandleShareSettled_NoFinally(s, url, err) ==
  /\ shareUrl' = IF s.pc = "resolved" THEN Some(s.link) ELSE url
  /\ shareError' = IF s.pc = "resolved" THEN err ELSE Some(s.error)
  /\ isSharing' = (s.pc # "resolved")

\* handleShare after its await, lines 123-127, once the call s has settled;
\* url and err are shareUrl and shareError as the handler last set them
HandleShareSettled(s, url, err) ==
  /\ shareUrl' = IF s.pc = "resolved" THEN Some(s.link) ELSE url
  /\ shareError' = IF s.pc = "resolved" THEN err ELSE Some(s.error)
  /\ isSharing' = FALSE

\* mutant of HandleShare: no guard on the video
HandleShare_NoGuard ==
  /\ ShareButtonEnabled \/ videoUrl = None
  /\ \E cfg \in DriveConfigs :
       LET s == ShareVideoToDrive(IF videoUrl = None THEN "" ELSE videoUrl[1],
                                  cfg[1], cfg[2])
       IN /\ share' = s
          /\ IF ShareSettled(s)
             THEN HandleShareSettled(s, None, None)
             ELSE /\ isSharing' = TRUE
                  /\ shareUrl' = None
                  /\ shareError' = None
  /\ UNCHANGED <<callVars, loadingMessage, apiKeySelected, isCheckingApiKey,
                 videoUrl, isGenerating, error, objectUrls, selector, server,
                 formVars, tasks>>

\* handleShare (App, 116-129), from the share button or called with no
\* video, up to its await; a call that has thrown at once is caught at once
HandleShare ==
  /\ ShareButtonEnabled \/ videoUrl = None
  /\ IF videoUrl = None
     THEN UNCHANGED <<isSharing, shareUrl, shareError, share>>
     ELSE \E cfg \in DriveConfigs :
            LET s == ShareVideoToDrive(videoUrl[1], cfg[1], cfg[2])
            IN /\ share' = s
               /\ IF ShareSettled(s)
                  THEN HandleShareSettled(s, None, None)
                  ELSE /\ isSharing' = TRUE
                       /\ shareUrl' = None
                       /\ shareError' = None
  /\ UNCHANGED <<callVars, loadingMessage, apiKeySelected, isCheckingApiKey,
                 videoUrl, isGenerating, error, objectUrls, selector, server,
                 formVars, tasks>>

\* a step of the shareVideoToDrive call in flight to the call s, with what
\* follows the await of handleShare when s has settled
ShareStepTo(s) ==
  /\ isSharing
  /\ share' = s
  /\ IF ShareSettled(s)
     THEN HandleShareSettled(s, shareUrl, shareError)
     ELSE UNCHANGED <<shareUrl, shareError, isSharing>>
  /\ UNCHANGED <<callVars, loadingMessage, apiKeySelected, isCheckingApiKey,
                 videoUrl, isGenerating, error, objectUrls, selector, server,
                 formVars, tasks>>

ShareTokenNotLoaded ==
  /\ share.pc = "token"
  /\ ShareStepTo(TokenNotLoaded(share))
ShareTokenThrew ==
  /\ share.pc = "token"
  /\ \E e \in TokenThrows : ShareStepTo(TokenThrew(share, e))
ShareTokenCallback ==
  /\ share.pc = "token"
  /\ \E r \in ShareTokenResponses : ShareStepTo(TokenCallback(share, r))
\* the video data can be read while its object URL is not revoked
ShareBlobRead ==
  /\ share.pc = "blob"
  /\ share.videoUrl \in objectUrls
  /\ ShareStepTo(BlobRead(share))
ShareBlobThrew ==
  /\ share.pc = "blob"
  /\ share.videoUrl \notin objectUrls
  /\ \E e \in FetchThrows : ShareStepTo(BlobThrew(share, e))
ShareUploadResponded ==
  /\ share.pc = "upload"
  /\ \E r \in ShareDriveResponses : ShareStepTo(UploadResponded(share, r))
ShareUploadThrew ==
  /\ share.pc = "upload"
  /\ \E e \in FetchThrows : ShareStepTo(UploadThrew(share, e))
SharePermissionResponded ==
  /\ share.pc = "permission"
  /\ \E r \in ShareDriveResponses : ShareStepTo(PermissionResponded(share, r))
SharePermissionThrew ==
  /\ share.pc = "permission"
  /\ \E e \in FetchThrows : ShareStepTo(PermissionThrew(share, e))
ShareFileMetaResponded ==
  /\ share.pc = "metadata"
  /\ \E r \in ShareDriveResponses : ShareStepTo(FileMetaResponded(share, r))
ShareFileMetaThrew ==
  /\ share.pc = "metadata"
  /\ \E e \in FetchThrows : ShareStepTo(FileMetaThrew(share, e))

\* the user picks one photo for an empty form
PickOnePhoto ==
  /\ FormMounted
  /\ Len(imageFiles) = 0
  /\ FileChange(<<SmallPhoto>>)
  /\ UNCHANGED <<callVars, loadingMessage, appVars, prompt, aspectRatio,
                 isSuggesting, tasks>>

\* the user submits while no earlier submit is in flight
SubmitWhenIdle ==
  /\ \A t \in Tasks : tasks[t].stage = "free"
  /\ HandleSubmit

ShareNext ==
  \/ CheckApiKeyDone
  \/ HandleApiKeySelected
  \/ PickOnePhoto
  \/ SubmitWhenIdle
  \/ \E t \in Tasks : ReadFailed(t)
  \/ \E t \in Tasks : ReadDone(t)
  \/ \E t \in Tasks : TaskSubmitReturned(t)
  \/ \E t \in Tasks : TaskSubmitThrew(t)
  \/ \E t \in Tasks : TaskTimerFired(t)
  \/ \E t \in Tasks : TaskCheckReturned(t)
  \/ \E t \in Tasks : TaskCheckThrew(t)
  \/ \E t \in Tasks : TaskFetchReturned(t)
  \/ \E t \in Tasks : TaskDownloadThrew(t)
  \/ \E t \in Tasks : TaskBlobReturned(t)
  \/ HandleShare
  \/ ShareTokenNotLoaded
  \/ ShareTokenThrew
  \/ ShareTokenCallback
  \/ ShareBlobRead
  \/ ShareBlobThrew
  \/ ShareUploadResponded
  \/ ShareUploadThrew
  \/ SharePermissionResponded
  \/ SharePermissionThrew
  \/ ShareFileMetaResponded
  \/ ShareFileMetaThrew

SpecShare == Init /\ [][ShareNext]_vars

\* C27: a share link or share error shown together with a video comes from
\* sharing that video, under every interleaving of handleShare with a new
\* generation.
C27_ShareOfDisplayedVideo ==
  (videoUrl # None /\ ~isGenerating /\ (shareUrl # None \/ shareError # None))
    => share.videoUrl = videoUrl[1]

\* the same for the link alone
C27_NoStaleLink ==
  (videoUrl # None /\ ~isGenerating /\ shareUrl # None)
    => share.videoUrl = videoUrl[1]

\* the ways the generateVideo call c can settle in one step
SettlementsOf(c) ==
  RejectionsOf(c)
    \cup {r \in {BlobReturned(c, url) : url \in ObjectUrls} : r.call.pc = "resolved"}

\* C28: a run of handleGeneration sets isGenerating and clears videoUrl,
\* error, shareUrl and shareError before generateVideo is called, and resets
\* isGenerating when generateVideo settles; after a run that no other run
\* overlapped, videoUrl is set exactly if generateVideo resolved and error is
\* set only if it rejected.
C28_GenerationRun ==
  [][\A t \in Tasks :
       /\ (tasks[t].stage = "reading" /\ Generating(t)') =>
            /\ isGenerating'
            /\ videoUrl' = None /\ error' = None
            /\ shareUrl' = None /\ shareError' = None
            /\ tasks'[t].call.pc = "submitting"
       /\ (Generating(t) /\ ~Generating(t)') =>
            /\ ~isGenerating'
            /\ \A r \in SettlementsOf(tasks[t].call) :
                 TaskTake(t, r) =>
                   /\ (videoUrl' # None) = (r.call.pc = "resolved")
                   /\ r.call.pc = "resolved" => videoUrl' = Some(r.call.url)
                   /\ error' # None => r.call.pc = "rejected"]_vars

\* a run has resolved and its video is shown
C28_Witness ==
  /\ \A t \in Tasks : tasks[t].stage = "free"
  /\ ~isGenerating
  /\ videoUrl # None
  /\ error = None
  /\ loadingMessage = FetchingMessage

\* a run has been rejected: an error and no video
C28_WitnessRejected ==
  /\ \A t \in Tasks : tasks[t].stage = "free"
  /\ ~isGenerating
  /\ videoUrl = None
  /\ error # None

\* C30: a run of handleShare with a video clears shareUrl and shareError at
\* its start; when shareVideoToDrive settles isSharing is false and exactly
\* one of shareUrl (success) and shareError (failure) is set; handleShare
\* does nothing without a video, and no share starts while isSharing.
C30_ShareRun ==
  [][/\ (HandleShare /\ videoUrl # None /\ ~isSharing) =>
          /\ share'.videoUrl = videoUrl[1]
          /\ share'.pc \in {"token", "rejected"}
          /\ share'.pc = "token" =>
               isSharing' /\ shareUrl' = None /\ shareError' = None
     /\ (share' # share /\ ShareSettled(share')) =>
          /\ ~isSharing'
          /\ (shareUrl' # None) # (shareError' # None)
          /\ share'.pc = "resolved" =>
               shareUrl' = Some(share'.link) /\ shareError' = None
          /\ share'.pc = "rejected" =>
               shareError' = Some(share'.error) /\ shareUrl' = None
     /\ (HandleShare /\ (videoUrl = None \/ isSharing)) =>
          UNCHANGED <<isSharing, shareUrl, shareError, share>>
     /\ (share' # share /\ share'.pc = "token") => ~isSharing
     /\ isSharing' # isSharing => share' # share]_vars

\* a share of the displayed video has succeeded
C30_Witness ==
  /\ ~isSharing
  /\ share.pc = "resolved"
  /\ shareUrl = Some(share.link)
  /\ shareError = None
  /\ videoUrl = Some(share.videoUrl)

\* a share has failed
C30_WitnessFailed ==
  /\ ~isSharing
  /\ share.pc = "rejected"
  /\ shareUrl = None
  /\ shareError = Some(share.error)

(***************************************************************************)
(* SpecRatio: the form with its aspect ratio radio group, and the          *)
(* generation that takes the ratio.                                        *)
(***************************************************************************)
\* the radio buttons of the form, line 224
OfferedRatios == {"16:9", "9:16"}
\* README.md, lines 15 and 89
DocumentedRatios == {"16:9", "9:16", "1:1"}

\* onChange of a radio button, line 231
SetAspectRatio(ratio) ==
  /\ FormMounted
  /\ ratio \in OfferedRatios
  /\ aspectRatio' = ratio
  /\ UNCHANGED <<callVars, loadingMessage, appVars, imageFiles, imagePreviews,
                 prompt, formError, suggestions, isSuggesting, tasks>>

HandleAspectRatioChange == \E ratio \in DocumentedRatios : SetAspectRatio(ratio)

RatioNext ==
  \/ CheckApiKeyDone
  \/ HandleApiKeySelected
  \/ PickOnePhoto
  \/ HandleAspectRatioChange
  \/ SubmitWhenIdle
  \/ \E t \in Tasks : ReadFailed(t)
  \/ \E t \in Tasks : ReadDone(t)
  \/ \E t \in Tasks : TaskSubmitReturned(t)
  \/ \E t \in Tasks : TaskSubmitThrew(t)
  \/ \E t \in Tasks : TaskTimerFired(t)
  \/ \E t \in Tasks : TaskCheckReturned(t)
  \/ \E t \in Tasks : TaskCheckThrew(t)
  \/ \E t \in Tasks : TaskFetchReturned(t)
  \/ \E t \in Tasks : TaskDownloadThrew(t)
  \/ \E t \in Tasks : TaskBlobReturned(t)

SpecRatio == Init /\ [][RatioNext]_vars

\* the ratio of the form when it was submitted is the ratio of the request
C26_PassedUnchanged ==
  \A t \in Tasks :
    Generating(t) =>
      /\ tasks[t].call.aspectRatio = tasks[t].aspectRatio
      /\ tasks[t].call.request[1].config.aspectRatio = tasks[t].aspectRatio
      /\ tasks[t].aspectRatio \in OfferedRatios

\* each ratio the form offers can be selected
C26_OfferedSelectable ==
  FormMounted =>
    \A ratio \in OfferedRatios : aspectRatio = ratio \/ ENABLED SetAspectRatio(ratio)

\* a request was sent with the portrait ratio
C26_PortraitUnreached ==
  ~(\E t \in Tasks : /\ Generating(t)
                     /\ tasks[t].call.request[1].config.aspectRatio = "9:16")

\* C26: each of the ratios 16:9, 9:16 and 1:1 can be selected in the form,
\* and the selected ratio is passed unchanged as the aspectRatio of the
\* generation request.
C26_ThreeRatios ==
  /\ C26_PassedUnchanged
  /\ FormMounted =>
       \A ratio \in DocumentedRatios :
         aspectRatio = ratio \/ ENABLED SetAspectRatio(ratio)

(***************************************************************************)
(* SpecForm: the VideoGeneratorForm with its file input, its remove        *)
(* buttons and its prompt suggestions.                                     *)
(***************************************************************************)
OtherPhoto ==
  [name |-> "garden.jpg", size |-> 2097152, type |-> "image/jpeg", data |-> "CCCC"]
FormFiles == {SmallPhoto, OtherPhoto, LargePhoto}
\* what suggestPrompts returns: at most 3 prompts (geminiService.ts, 162-166)
SuggestionLists ==
  {<<>>, <<"A gentle breeze moves the leaves.">>,
   <<"A gentle breeze moves the leaves.", "Sunlight flickers on the water.",
     "The camera slowly pulls back.">>}
SuggestFailures ==
  ReadErrors \cup {<<"Failed to generate prompt suggestions.">>}
SuggestError(e) == <<"Failed to get suggestions: ">> \o e

\* handleFileChange with the files the user picks
FormFileChange ==
  /\ FormMounted
  /\ Len(imageFiles) < 3
  /\ \E fileArray \in SeqsOf(FormFiles, 1, MaxBatch) : FileChange(fileArray)
  /\ UNCHANGED <<callVars, loadingMessage, appVars, prompt, aspectRatio,
                 isSuggesting, tasks>>

\* handleSuggestPrompts (form, 70-79) up to its await; the button is on the
\* page with an image (169) and disabled while suggesting (174)
HandleSuggestPrompts ==
  /\ FormMounted
  /\ Len(imageFiles) > 0
  /\ ~isSuggesting
  /\ isSuggesting' = TRUE
  /\ formError' = None
  /\ suggestions' = <<>>
  /\ UNCHANGED <<callVars, loadingMessage, appVars, imageFiles, imagePreviews,
                 prompt, aspectRatio, tasks>>

\* handleSuggestPrompts, lines 80-81 and 85
SuggestReturned ==
  /\ isSuggesting
  /\ \E newSuggestions \in SuggestionLists : suggestions' = newSuggestions
  /\ isSuggesting' = FALSE
  /\ UNCHANGED <<callVars, loadingMessage, appVars, imageFiles, imagePreviews,
                 prompt, aspectRatio, formError, tasks>>

\* handleSuggestPrompts, lines 82-85
SuggestThrew ==
  /\ isSuggesting
  /\ \E e \in SuggestFailures : formError' = Some(SuggestError(e))
  /\ isSuggesting' = FALSE
  /\ UNCHANGED <<callVars, loadingMessage, appVars, imageFiles, imagePreviews,
                 prompt, aspectRatio, suggestions, tasks>>

FormNext ==
  \/ CheckApiKeyDone
  \/ HandleApiKeySelected
  \/ FormFileChange
  \/ HandleRemoveImage
  \/ HandleSuggestPrompts
  \/ SuggestReturned
  \/ SuggestThrew

SpecForm == Init /\ [][FormNext]_vars

\* a batch that handleFileChange rejects
Rejected(fileArray) ==
  \/ Len(imageFiles) + Len(fileArray) > 3
  \/ \E i \in 1..Len(fileArray) : fileArray[i].size > 10485760

\* every preview is the preview of the file at its index
Aligned ==
  /\ Len(imageFiles) = Len(imagePreviews)
  /\ \A i \in 1..Len(imageFiles) :
       imagePreviews[i] = <<"blob:preview", imageFiles[i].name>>

\* C29: a batch that handleFileChange rejects (more than 3 images in total,
\* or a file over 10 MB) adds no file and leaves imageFiles, imagePreviews
\* and suggestions unchanged, only the error message changes; an accepted
\* batch is added whole; imageFiles and imagePreviews always have the same
\* length and are index-aligned.
C29_AllOrNothing ==
  /\ []Aligned
  /\ [][\A fileArray \in SeqsOf(FormFiles, 1, MaxBatch) :
          (FormMounted /\ Len(imageFiles) < 3 /\ FileChange(fileArray)
             /\ UNCHANGED <<prompt, aspectRatio, isSuggesting>>) =>
            IF Rejected(fileArray)
            THEN /\ imageFiles' = imageFiles
                 /\ imagePreviews' = imagePreviews
                 /\ suggestions' = suggestions
                 /\ formError' # None
            ELSE /\ Len(imageFiles') = Len(imageFiles) + Len(fileArray)
                 /\ \A i \in 1..Len(fileArray) :
                      imageFiles'[Len(imageFiles) + i] = fileArray[i]
                 /\ \A i \in 1..Len(imageFiles) : imageFiles'[i] = imageFiles[i]]_vars

\* a batch with an oversized file was rejected while two different photos
\* and a list of suggestions were there
C29_Witness ==
  /\ Len(imageFiles) = 2
  /\ imageFiles[1] # imageFiles[2]
  /\ suggestions # <<>>
  /\ formError = Some(OversizeError(LargePhoto))

\* a batch was rejected for its number
C29_WitnessTooMany ==
  /\ Len(imageFiles) = 2
  /\ suggestions # <<>>
  /\ formError = Some(MaxImagesError)

====
